---- MODULE Spec2Model ----
(***************************************************************************)
(* State-machine models of the audio helpers of the IELTS preparation      *)
(* front end:                                                              *)
(*   - useAudioClipQueue (src/unnamed/part_001, lines 217-259)             *)
(*   - SafeAudioPlayer   (src/src/components/test-list/BookSectionNew.tsx, *)
(*                        lines 354-696)                                   *)
(*   - AILoadingScreen   (same file, lines 713-742)                        *)
(* and of two edge functions:                                              *)
(*   - explain-answer-followup (src/unnamed/part_001, lines 38-205)        *)
(*   - analyze-performance     (src/unnamed/part_000)                      *)
(* Each component has its own specification (SpecQueue, SpecPlayer,        *)
(* SpecPlayerFixed for a player whose props never change, SpecVoice,       *)
(* SpecFollowup, SpecAnalysis, SpecScreen); the variables of the other     *)
(* components stay at their initial values.                                *)
(***************************************************************************)
EXTENDS Integers, Sequences, FiniteSets, TLC

VARIABLES
    \* ---- useAudioClipQueue ----
    playSessionRef,   \* playSessionRef.current
    isSpeaking,       \* the isSpeaking React state
    calls,            \* one record per playClips invocation, in call order
    \* ---- SafeAudioPlayer ----
    props,            \* audioUrl, fallbackText, autoPlay
    player,           \* the component's state, refs and the speech synthesizer
    loads,            \* one record per run of the load effect, in order
    \* ---- SafeAudioPlayer.getBestVoice ----
    voices,           \* window.speechSynthesis.getVoices()
    accentHint,       \* the accentHint prop
    bestVoice,        \* what the last getBestVoice() returned
    \* ---- edge functions ----
    followup,         \* one request to explain-answer-followup
    analysis,         \* one request to analyze-performance
    \* ---- AILoadingScreen ----
    screen,           \* props, elapsedSeconds and the rendered progress
    \* ---- ReadingTimer, speaking editors, ListeningAudioUploader,
    \* ---- MicrophoneTest ----
    timer,            \* timeLeft, isPaused and the interval
    editor,           \* the questions and minRequiredQuestions of an editor
    uploader,         \* the uploader's state, its props and the bucket
    mic               \* MicrophoneTest's state and its recording attempts

queueVars == <<playSessionRef, isSpeaking, calls>>

playerVars == <<props, player, loads>>

voiceVars == <<voices, accentHint, bestVoice>>

edgeVars == <<followup, analysis>>

screenVars == <<screen>>

vars == <<playSessionRef, isSpeaking, calls, props, player, loads,
          voices, accentHint, bestVoice, followup, analysis, screen,
          timer, editor, uploader, mic>>

(***************************************************************************)
(* Bounds of the model.                                                    *)
(***************************************************************************)
MaxCalls == 2      \* playClips invocations in one behaviour
MaxClips == 2      \* clips in one list
MaxSession == 3    \* cap of the session counter (stop() + playClips)
MaxLoads == 2      \* runs of SafeAudioPlayer's load effect in one behaviour
MaxTts == 2        \* fallback starts counted per load (2 = more than one)
MaxVoices == 3     \* voices in the list of the speech synthesizer

(***************************************************************************)
(* The state of each component before it is used.                          *)
(***************************************************************************)

\* SafeAudioPlayer not rendered: the initial values of its useState / useRef
\* (lines 364-373) and an idle speech synthesizer.
\*   audioRef: index in loads of the element audioRef.current holds, 0 = null
\*   utt: the utterance in the synthesizer ("none", "queued", "speaking",
\*   "paused"); cancelled: cancelled utterances
\*   whose error event is still to come; onErrorCalled: props.onError was
\*   called
PlayerUnmounted ==
    [mounted       |-> FALSE,
     state         |-> "loading",
     usingFallback |-> FALSE,
     isMuted       |-> FALSE,
     progress      |-> 0,
     audioRef      |-> 0,
     utt           |-> "none",
     cancelled     |-> 0,
     onErrorCalled |-> FALSE]

PlayerIdle ==
    /\ props = [audioUrl |-> "none", fallbackText |-> "", autoPlay |-> FALSE]
    /\ player = PlayerUnmounted
    /\ loads = << >>


\* getBestVoice not called yet, no voice loaded.
NotCalled == [pending |-> TRUE]

VoiceIdle ==
    /\ voices = << >>
    /\ accentHint = ""
    /\ bestVoice = NotCalled

\* No request has reached the edge functions.
NoRequest == [pc |-> "idle"]

EdgeIdle ==
    /\ followup = NoRequest
    /\ analysis = NoRequest

\* AILoadingScreen not rendered.
ScreenIdle == screen = [mounted |-> FALSE]

\* A component that is not rendered.
NotRendered == [mounted |-> FALSE]

TimerIdle == timer = NotRendered

EditorIdle == editor = NotRendered

UploaderIdle == uploader = NotRendered

MicIdle == mic = NotRendered

(***************************************************************************)
(* useAudioClipQueue                                                       *)
(***************************************************************************)

\* The fields of a call record: clips (the list), sessionId (the local const
\* of line 230), pc (where the async function stands: "playing" = awaiting
\* the promise of lines 239-245, "done" = returned, "failed" = threw,
\* "returned" = left at line 228), endRef (the session counter when the call
\* finished), started (the clips whose Audio was started, in order), audio
\* (each clip's Audio element), created / revoked (how often the clip's
\* object URL was created / revoked).

\* A clip is its base64 PCM payload; the lists differ in their length only.
ClipKinds == {"pcm"}

ClipLists == UNION {[1..n -> ClipKinds] : n \in 0..MaxClips}

\* The record of a playClips invocation right after `if (!clips.length) return`.
NewCall(clips, sessionId) ==
    [clips     |-> clips,
     sessionId |-> sessionId,
     pc        |-> "loop",
     endRef    |-> 0,
     started   |-> << >>,
     audio     |-> [k \in 1..Len(clips) |-> "idle"],
     created   |-> [k \in 1..Len(clips) |-> 0],
     revoked   |-> [k \in 1..Len(clips) |-> 0]]

\* A loop guard that never sees the supersession (mutant of Superseded).
SupersededNever(call, ref) == FALSE

\* The loop guard of line 234: the call was superseded.
Superseded(call, ref) == ref # call.sessionId

\* One pass of the for loop's head for clip k (lines 233-245), run
\* synchronously up to the await: leave the loop, or create the URL and
\* start the Audio element.
LoopHead(call, k, ref) ==
    IF k > Len(call.clips) \/ Superseded(call, ref)
    THEN [call EXCEPT !.pc = "done", !.endRef = ref]
    ELSE [call EXCEPT !.pc = "playing",
                      !.audio[k] = "playing",
                      !.created[k] = @ + 1,
                      !.started = Append(@, k)]

\* Clearing isSpeaking without the session comparison (mutant of
\* SpeakingAfter).
SpeakingAfterUnchecked(call, ref, speaking) ==
    IF call.pc = "done" THEN FALSE ELSE speaking

\* Lines 251-253: after the loop only the current session clears isSpeaking.
SpeakingAfter(call, ref, speaking) ==
    IF call.pc = "done" /\ ref = call.sessionId THEN FALSE ELSE speaking

\* The clip a call is awaiting.
Current(call) == call.started[Len(call.started)]

\* The other components do not move while the queue does.
QueueFrame ==
    UNCHANGED <<playerVars, voiceVars, edgeVars, screenVars,
                timer, editor, uploader, mic>>

\* A stop() that also silences the clips that are playing (mutant of stop).
stopSilencing ==
    /\ playSessionRef < MaxSession
    /\ playSessionRef' = playSessionRef + 1
    /\ isSpeaking' = FALSE
    /\ calls' = [c \in 1..Len(calls) |->
                   [calls[c] EXCEPT !.audio =
                       [k \in DOMAIN @ |-> IF @[k] = "playing" THEN "ended" ELSE @[k]]]]
    /\ QueueFrame

\* stop(), lines 221-224.
stop ==
    /\ playSessionRef < MaxSession
    /\ playSessionRef' = playSessionRef + 1
    /\ isSpeaking' = FALSE
    /\ UNCHANGED calls
    /\ QueueFrame

\* A playClips that takes a session for an empty list as well (mutant of
\* playClipsEmpty).
playClipsEmptySuperseding ==
    /\ Len(calls) < MaxCalls
    /\ playSessionRef < MaxSession
    /\ calls' = Append(calls, [NewCall(<< >>, 0) EXCEPT !.pc = "returned"])
    /\ playSessionRef' = playSessionRef + 1
    /\ isSpeaking' = FALSE
    /\ QueueFrame

\* playClips(clips) with an empty list, line 228.
playClipsEmpty ==
    /\ Len(calls) < MaxCalls
    /\ calls' = Append(calls, [NewCall(<< >>, 0) EXCEPT !.pc = "returned"])
    /\ UNCHANGED <<playSessionRef, isSpeaking>>
    /\ QueueFrame

\* A playClips that reuses the current session id instead of incrementing
\* the counter (mutant of playClips).
playClipsSameSession(clips) ==
    /\ Len(clips) > 0
    /\ Len(calls) < MaxCalls
    /\ playSessionRef < MaxSession
    /\ LET sessionId == playSessionRef
           call == LoopHead(NewCall(clips, sessionId), 1, sessionId)
       IN /\ playSessionRef' = sessionId
          /\ calls' = Append(calls, call)
          /\ isSpeaking' = SpeakingAfter(call, sessionId, TRUE)
    /\ QueueFrame

\* playClips(clips), lines 226-245, up to the first await.
playClips(clips) ==
    /\ Len(clips) > 0
    /\ Len(calls) < MaxCalls
    /\ playSessionRef < MaxSession
    /\ LET sessionId == playSessionRef + 1
           call == LoopHead(NewCall(clips, sessionId), 1, sessionId)
       IN /\ playSessionRef' = sessionId
          /\ calls' = Append(calls, call)
          /\ isSpeaking' = SpeakingAfter(call, sessionId, TRUE)
    /\ QueueFrame

\* A continuation that starts the next clip without waiting for the end of
\* the current one: the current clip is left playing (mutant of Resume).
ResumeNoWait(call, ref) ==
    LoopHead([call EXCEPT !.revoked[Current(call)] = @ + 1],
             Current(call) + 1, ref)

\* A continuation whose finally block does not revoke the URL (mutant of
\* Resume).
ResumeKeepingUrl(call, ref) ==
    LET k == Current(call)
    IN LoopHead([call EXCEPT !.audio[k] = "ended"], k + 1, ref)

\* The continuation after the awaited promise resolved (audio.onended):
\* finally revokes the URL, then the loop goes on with the next clip.
Resume(call, ref) ==
    LET k == Current(call)
    IN LoopHead([call EXCEPT !.audio[k] = "ended", !.revoked[k] = @ + 1],
                k + 1, ref)

\* A continuation that swallows the rejection and goes on with the next clip
\* (mutant of Abort).
AbortSwallowed(call, how) ==
    LET k == Current(call)
    IN LoopHead([call EXCEPT !.audio[k] = how, !.revoked[k] = @ + 1],
                k + 1, playSessionRef)

\* The continuation after the promise rejected (how: "failed" for
\* audio.onerror, "rejected" for a rejected play()): finally revokes the URL
\* and the error leaves playClips.
Abort(call, how) ==
    LET k == Current(call)
    IN [call EXCEPT !.audio[k] = how, !.revoked[k] = @ + 1,
                    !.pc = "failed", !.endRef = playSessionRef]

\* audio.onended of the clip call c awaits, line 242.
audioEnded(c) ==
    /\ calls[c].pc = "playing"
    /\ LET call == Resume(calls[c], playSessionRef)
       IN /\ calls' = [calls EXCEPT ![c] = call]
          /\ isSpeaking' = SpeakingAfter(call, playSessionRef, isSpeaking)
    /\ UNCHANGED playSessionRef
    /\ QueueFrame

\* audio.onerror of the clip call c awaits, line 243.
audioError(c) ==
    /\ calls[c].pc = "playing"
    /\ calls' = [calls EXCEPT ![c] = Abort(calls[c], "failed")]
    /\ UNCHANGED <<playSessionRef, isSpeaking>>
    /\ QueueFrame

\* audio.play() of the clip call c awaits rejects, line 244.
playRejected(c) ==
    /\ calls[c].pc = "playing"
    /\ calls' = [calls EXCEPT ![c] = Abort(calls[c], "rejected")]
    /\ UNCHANGED <<playSessionRef, isSpeaking>>
    /\ QueueFrame

QueueIdle ==
    /\ playSessionRef = 0
    /\ isSpeaking = FALSE
    /\ calls = << >>

InitQueue ==
    /\ QueueIdle /\ PlayerIdle /\ VoiceIdle /\ EdgeIdle /\ ScreenIdle
    /\ TimerIdle /\ EditorIdle /\ UploaderIdle /\ MicIdle

NextQueue ==
    \/ stop
    \/ playClipsEmpty
    \/ \E clips \in ClipLists : playClips(clips)
    \/ \E c \in 1..Len(calls) : audioEnded(c)
    \/ \E c \in 1..Len(calls) : audioError(c)
    \/ \E c \in 1..Len(calls) : playRejected(c)

SpecQueue == InitQueue /\ [][NextQueue]_vars

(***************************************************************************)
(* SafeAudioPlayer                                                         *)
(***************************************************************************)

\* audioUrl: "none" stands for null, undefined and the empty string.
Urls == {"none", "a", "b"}

\* fallbackText: "" stands for undefined and the empty string.
Texts == {"", "text"}

AudioStates == {"loading", "ready", "playing", "paused", "fallback", "error"}

\* Slider values handleSeek is called with, and playback positions, in
\* percent of the duration.
SeekValues == {0, 50}

\* An HTMLAudioElement: src ("url" = audioUrl, "empty" = "", "none" = no
\* element), meta (loadedmetadata was fired, duration is known), paused (the
\* paused attribute), events (the queued play / pause / error events, in
\* order), broken (the resource failed), time (currentTime in percent).
NoElement ==
    [src |-> "none", meta |-> FALSE, paused |-> TRUE, events |-> << >>,
     broken |-> FALSE, time |-> 0]

\* new Audio() with src = audioUrl, lines 487-523.
NewAudio == [NoElement EXCEPT !.src = "url"]

\* audio.pause(): a pause event is queued when the element was not paused.
ElPause(el) ==
    IF el.paused THEN el
    ELSE [el EXCEPT !.paused = TRUE, !.events = Append(@, "pause")]

\* audio.play() that the browser allows: a play event is queued when the
\* element was paused; playback that had ended starts over. On an element
\* without a usable resource play() rejects and nothing changes.
ElPlay(el) ==
    IF el.src # "url" \/ el.broken \/ ~el.paused THEN el
    ELSE [el EXCEPT !.paused = FALSE, !.events = Append(@, "play"),
                    !.time = IF @ = 100 THEN 0 ELSE @]

\* audio.src = "": the load algorithm drops the resource and the queued
\* events, pauses, and queues the error event of an empty src attribute.
ElEmpty(el) ==
    [el EXCEPT !.src = "empty", !.meta = FALSE, !.paused = TRUE,
               !.events = <<"error">>, !.broken = FALSE, !.time = 0]

\* React state setters: no effect once the component is unmounted.
SetState(p, s) == IF p.mounted THEN [p EXCEPT !.state = s] ELSE p

SetProgress(p, v) == IF p.mounted THEN [p EXCEPT !.progress = v] ELSE p

SetUsingFallback(p) == IF p.mounted THEN [p EXCEPT !.usingFallback = TRUE] ELSE p

\* window.speechSynthesis.cancel(): the utterance in the queue or being
\* spoken is removed; the synthesizer reports that with an error event on it.
SpeechCancel(p) ==
    IF p.utt \in {"queued", "speaking", "paused"}
    THEN [p EXCEPT !.utt = "none", !.cancelled = @ + 1]
    ELSE p

\* A startFallbackTTS that gives up instead of speaking (mutant of
\* startFallbackTTS).
startFallbackTTSGivingUp(p, fb) ==
    [SetState(p, "error") EXCEPT !.onErrorCalled = TRUE]

\* startFallbackTTS with the fallbackText fb of its closure, lines 417-471.
startFallbackTTS(p, fb) ==
    IF fb = ""
    THEN [SetState(p, "error") EXCEPT !.onErrorCalled = TRUE]
    ELSE [SetState(SetUsingFallback(SpeechCancel(p)), "fallback")
              EXCEPT !.utt = "queued"]

\* The record of one run of the load effect: the audioUrl and fallbackText of
\* its closure, the HEAD check ("none", "pending", "ok", "failed"), its Audio
\* element, and how often its handlers started the fallback speech (counted
\* up to MaxTts).
CountTts(n) == IF n < MaxTts THEN n + 1 ELSE n

NewLoad(url, fb) ==
    [url  |-> url,
     fb   |-> fb,
     head |-> IF url = "none" THEN "none" ELSE "pending",
     el   |-> IF url = "none" THEN NoElement ELSE NewAudio,
     tts  |-> IF url = "none" /\ fb # "" THEN 1 ELSE 0]

\* The body of the load effect, lines 475-538: what it does to the component.
EffectPlayer(p, ls, url, fb) ==
    IF url = "none"
    THEN IF fb # "" THEN startFallbackTTS(p, fb) ELSE SetState(p, "error")
    ELSE [SetState(p, "loading") EXCEPT !.audioRef = Len(ls) + 1]

\* The body of the load effect: the load it starts.
EffectLoads(ls, url, fb) == Append(ls, NewLoad(url, fb))

\* The cleanup of the last run of the load effect, lines 540-547; a run
\* without audioUrl returned no cleanup.
HasCleanup(ls) == Len(ls) > 0 /\ ls[Len(ls)].url # "none"

CleanupPlayer(p, ls) == IF HasCleanup(ls) THEN SpeechCancel(p) ELSE p

CleanupLoads(ls) ==
    IF HasCleanup(ls)
    THEN [ls EXCEPT ![Len(ls)].el = ElEmpty(ElPause(@)), ![Len(ls)].tts = 0,
                    ![Len(ls)].head = IF @ = "pending" THEN @ ELSE "done"]
    ELSE ls

PlayerFrame ==
    UNCHANGED <<queueVars, voiceVars, edgeVars, screenVars,
                timer, editor, uploader, mic>>

\* The parent renders the player with another audioUrl or fallbackText: the
\* load effect is cleaned up and runs again.
changeProps(url, fb) ==
    /\ player.mounted
    /\ Len(loads) < MaxLoads
    /\ <<url, fb>> # <<props.audioUrl, props.fallbackText>>
    /\ props' = [props EXCEPT !.audioUrl = url, !.fallbackText = fb]
    /\ player' = EffectPlayer(CleanupPlayer(player, loads), loads, url, fb)
    /\ loads' = EffectLoads(CleanupLoads(loads), url, fb)
    /\ PlayerFrame

\* The mute button, lines 674-685: isMuted is a dependency of
\* startFallbackTTS (line 471), which is a dependency of the load effect
\* (line 548), so the effect is cleaned up and runs again.
toggleMute ==
    /\ player.mounted
    /\ player.state # "error"
    /\ Len(loads) < MaxLoads
    /\ player' = EffectPlayer(
                     CleanupPlayer([player EXCEPT !.isMuted = ~@], loads),
                     loads, props.audioUrl, props.fallbackText)
    /\ loads' = EffectLoads(CleanupLoads(loads), props.audioUrl, props.fallbackText)
    /\ UNCHANGED props
    /\ PlayerFrame

\* What outlives the component: the speech synthesizer and the record of the
\* onError calls; the useState and useRef values are gone.
Unmounted(p) ==
    [PlayerUnmounted EXCEPT !.utt = p.utt, !.cancelled = p.cancelled,
                            !.onErrorCalled = p.onErrorCalled]

\* The component unmounts: the cleanup of the load effect runs.
unmount ==
    /\ player.mounted
    /\ player' = Unmounted(CleanupPlayer(player, loads))
    /\ loads' = CleanupLoads(loads)
    /\ UNCHANGED props
    /\ PlayerFrame

\* audio.onloadedmetadata of load g, lines 493-501; allowed: whether the
\* browser lets the autoplay play() start.
audioOnLoadedMetadata(g, allowed) ==
    /\ loads[g].el.src = "url"
    /\ ~loads[g].el.meta
    /\ ~loads[g].el.broken
    /\ player' = SetState(player, "ready")
    /\ loads' = [loads EXCEPT ![g].el =
                    IF props.autoPlay /\ allowed
                    THEN ElPlay([@ EXCEPT !.meta = TRUE])
                    ELSE [@ EXCEPT !.meta = TRUE]]
    /\ UNCHANGED props
    /\ PlayerFrame

\* audio.onplay of load g, line 503.
audioOnPlay(g) ==
    /\ loads[g].el.events # << >>
    /\ Head(loads[g].el.events) = "play"
    /\ player' = SetState(player, "playing")
    /\ loads' = [loads EXCEPT ![g].el.events = Tail(@)]
    /\ UNCHANGED props
    /\ PlayerFrame

\* audio.onpause of load g, line 504.
audioOnPause(g) ==
    /\ loads[g].el.events # << >>
    /\ Head(loads[g].el.events) = "pause"
    /\ player' = SetState(player, "paused")
    /\ loads' = [loads EXCEPT ![g].el.events = Tail(@)]
    /\ UNCHANGED props
    /\ PlayerFrame

\* Playback of load g reaches the end: the element pauses and fires pause
\* and ended; audio.onpause and audio.onended, lines 504-509.
audioOnEnded(g) ==
    /\ loads[g].el.src = "url"
    /\ loads[g].el.meta
    /\ ~loads[g].el.paused
    /\ ~loads[g].el.broken
    /\ loads[g].el.events = << >>
    /\ player' = SetProgress(SetState(player, "paused"), 0)
    /\ loads' = [loads EXCEPT ![g].el.paused = TRUE, ![g].el.time = 100]
    /\ UNCHANGED props
    /\ PlayerFrame

\* The playback position of load g moves on while it plays.
timeAdvance(g) ==
    /\ loads[g].el.src = "url"
    /\ loads[g].el.meta
    /\ ~loads[g].el.paused
    /\ ~loads[g].el.broken
    /\ loads[g].el.time = 0
    /\ loads' = [loads EXCEPT ![g].el.time = 50]
    /\ UNCHANGED <<props, player>>
    /\ PlayerFrame

\* The error handler of load g with the values of its closure, lines 511-520.
OnErrorPlayer(p, fb) ==
    IF fb # ""
    THEN startFallbackTTS(p, fb)
    ELSE [SetState(p, "error") EXCEPT !.onErrorCalled = TRUE]

\* audio.onerror of load g: the queued error event of an empty src, or the
\* failure of the resource (network, decoding, 404).
audioOnError(g) ==
    /\ \/ loads[g].el.events # << >> /\ Head(loads[g].el.events) = "error"
       \/ /\ loads[g].el.src = "url"
          /\ ~loads[g].el.broken
          /\ loads[g].el.events = << >>
    /\ player' = OnErrorPlayer(player, loads[g].fb)
    /\ loads' = [loads EXCEPT
                    ![g].el.events = IF @ = << >> THEN @ ELSE Tail(@),
                    ![g].el.broken = loads[g].el.src = "url",
                    ![g].tts = IF loads[g].fb # "" THEN CountTts(@) ELSE @]
    /\ UNCHANGED props
    /\ PlayerFrame

\* A catch handler that fails the player when there is no fallback text
\* (mutant of HeadFailedPlayer).
HeadFailedPlayerStrict(p, fb) ==
    IF fb # "" THEN startFallbackTTS(p, fb) ELSE SetState(p, "error")

\* The catch handler of the HEAD check of load g, lines 532-538.
HeadFailedPlayer(p, fb) ==
    IF fb # "" THEN startFallbackTTS(p, fb) ELSE p

\* The HEAD request of load g settles, lines 526-538; ok: the response came
\* and its status is OK.
headResult(g, ok) ==
    /\ loads[g].head = "pending"
    /\ player' = IF ok THEN player ELSE HeadFailedPlayer(player, loads[g].fb)
    /\ loads' = [loads EXCEPT
                    ![g].head = IF ok THEN "ok" ELSE "failed",
                    ![g].el = IF ~ok /\ loads[g].fb # "" THEN ElEmpty(@) ELSE @,
                    ![g].tts = IF ~ok /\ loads[g].fb # "" THEN CountTts(@) ELSE @]
    /\ UNCHANGED props
    /\ PlayerFrame

\* utterance.onstart, lines 453-455.
uttOnStart ==
    /\ player.utt = "queued"
    /\ player' = [SetState(player, "playing") EXCEPT !.utt = "speaking"]
    /\ UNCHANGED <<props, loads>>
    /\ PlayerFrame

\* utterance.onend, lines 457-461.
uttOnEnd ==
    /\ player.utt = "speaking"
    /\ player' = [SetProgress(SetState(player, "paused"), 100) EXCEPT !.utt = "none"]
    /\ UNCHANGED <<props, loads>>
    /\ PlayerFrame

\* utterance.onerror of the current utterance, lines 463-467.
uttOnError ==
    /\ player.utt \in {"queued", "speaking", "paused"}
    /\ player' = [SetState(player, "error") EXCEPT
                     !.utt = "none", !.onErrorCalled = TRUE]
    /\ UNCHANGED <<props, loads>>
    /\ PlayerFrame

\* utterance.onerror of an utterance that cancel() removed, lines 463-467.
cancelledOnError ==
    /\ player.cancelled > 0
    /\ player' = [SetState(player, "error") EXCEPT
                     !.cancelled = @ - 1, !.onErrorCalled = TRUE]
    /\ UNCHANGED <<props, loads>>
    /\ PlayerFrame

\* togglePlay, lines 583-602, what it does to the component; the button is
\* disabled while loading and not rendered in the error state.
TogglePlayPlayer(p) ==
    IF p.usingFallback
    THEN IF p.state = "playing"
         THEN [SetState(p, "paused") EXCEPT
                  !.utt = IF @ = "speaking" THEN "paused" ELSE @]
         ELSE [SetState(p, "playing") EXCEPT
                  !.utt = IF @ = "paused" THEN "speaking" ELSE @]
    ELSE p

\* togglePlay: what it does to the element audioRef.current.
TogglePlayElement(p, el, allowed) ==
    IF p.usingFallback THEN el
    ELSE IF p.state = "playing" THEN ElPause(el)
    ELSE IF allowed THEN ElPlay(el) ELSE el

togglePlay(allowed) ==
    /\ player.mounted
    /\ player.state \notin {"loading", "error"}
    /\ player' = TogglePlayPlayer(player)
    /\ loads' = IF player.audioRef = 0 THEN loads
                ELSE [loads EXCEPT ![player.audioRef].el =
                         TogglePlayElement(player, @, allowed)]
    /\ UNCHANGED props
    /\ PlayerFrame

\* A handleSeek that ignores the usingFallback guard of line 605 (mutant of
\* SeekApplies).
SeekAppliesAnyway(p, ls) ==
    /\ p.audioRef # 0
    /\ ls[p.audioRef].el.meta

\* handleSeek([v]), lines 604-613.
SeekApplies(p, ls) ==
    /\ ~p.usingFallback
    /\ p.audioRef # 0
    /\ ls[p.audioRef].el.meta

handleSeek(v) ==
    /\ player.mounted
    /\ player.state # "error"
    /\ player' = IF SeekApplies(player, loads) THEN SetProgress(player, v) ELSE player
    /\ loads' = IF SeekApplies(player, loads)
                THEN [loads EXCEPT ![player.audioRef].el.time = v]
                ELSE loads
    /\ UNCHANGED props
    /\ PlayerFrame

\* The 100 ms interval of the progress effect, lines 551-571.
progressTick ==
    /\ player.mounted
    /\ player.state = "playing"
    /\ player.audioRef # 0
    /\ ~player.usingFallback
    /\ loads[player.audioRef].el.meta
    /\ player' = SetProgress(player, loads[player.audioRef].el.time)
    /\ UNCHANGED <<props, loads>>
    /\ PlayerFrame

\* The component was mounted with some props and its load effect has run.
PlayerMounted(url, fb, auto) ==
    /\ props = [audioUrl |-> url, fallbackText |-> fb, autoPlay |-> auto]
    /\ player = EffectPlayer([PlayerUnmounted EXCEPT !.mounted = TRUE], << >>, url, fb)
    /\ loads = EffectLoads(<< >>, url, fb)

InitPlayer ==
    /\ TimerIdle /\ EditorIdle /\ UploaderIdle /\ MicIdle
    /\ QueueIdle
    /\ VoiceIdle
    /\ EdgeIdle
    /\ ScreenIdle
    /\ \E url \in {"none", "a"}, fb \in Texts, auto \in BOOLEAN :
           PlayerMounted(url, fb, auto)

LoadIds == 1..Len(loads)

NextPlayer ==
    \/ \E url \in Urls, fb \in Texts : changeProps(url, fb)
    \/ toggleMute
    \/ unmount
    \/ \E g \in LoadIds, allowed \in BOOLEAN : audioOnLoadedMetadata(g, allowed)
    \/ \E g \in LoadIds : audioOnPlay(g)
    \/ \E g \in LoadIds : audioOnPause(g)
    \/ \E g \in LoadIds : audioOnEnded(g)
    \/ \E g \in LoadIds : timeAdvance(g)
    \/ \E g \in LoadIds : audioOnError(g)
    \/ \E g \in LoadIds, ok \in BOOLEAN : headResult(g, ok)
    \/ uttOnStart
    \/ uttOnEnd
    \/ uttOnError
    \/ cancelledOnError
    \/ \E allowed \in BOOLEAN : togglePlay(allowed)
    \/ \E v \in SeekValues : handleSeek(v)
    \/ progressTick

SpecPlayer == InitPlayer /\ [][NextPlayer]_vars

\* The player under a parent that never changes audioUrl and fallbackText.
NextPlayerFixed ==
    \/ toggleMute
    \/ unmount
    \/ \E g \in LoadIds, allowed \in BOOLEAN : audioOnLoadedMetadata(g, allowed)
    \/ \E g \in LoadIds : audioOnPlay(g)
    \/ \E g \in LoadIds : audioOnPause(g)
    \/ \E g \in LoadIds : audioOnEnded(g)
    \/ \E g \in LoadIds : timeAdvance(g)
    \/ \E g \in LoadIds : audioOnError(g)
    \/ \E g \in LoadIds, ok \in BOOLEAN : headResult(g, ok)
    \/ uttOnStart
    \/ uttOnEnd
    \/ uttOnError
    \/ cancelledOnError
    \/ \E allowed \in BOOLEAN : togglePlay(allowed)
    \/ \E v \in SeekValues : handleSeek(v)
    \/ progressTick

SpecPlayerFixed == InitPlayer /\ [][NextPlayerFixed]_vars

(***************************************************************************)
(* SafeAudioPlayer.getBestVoice, lines 376-414.  Strings are sequences of  *)
(* characters.                                                             *)
(***************************************************************************)

\* String.prototype.includes
Includes(str, sub) ==
    \E i \in 0..(Len(str) - Len(sub)) : SubSeq(str, i + 1, i + Len(sub)) = sub

\* String.prototype.startsWith
StartsWith(str, pre) ==
    Len(str) >= Len(pre) /\ SubSeq(str, 1, Len(pre)) = pre

\* l.replace("_", "-"): the first underscore becomes a hyphen.
ReplaceUnderscore(str) ==
    IF \E i \in 1..Len(str) : str[i] = "_"
    THEN LET i == CHOOSE j \in 1..Len(str) :
                      str[j] = "_" /\ \A h \in 1..(j - 1) : str[h] # "_"
         IN [str EXCEPT ![i] = "-"]
    ELSE str

\* accentMap, lines 381-386.
accentMap ==
    ("US" :> <<<<"e", "n", "-", "U", "S">>, <<"e", "n", "_", "U", "S">>>>) @@
    ("GB" :> <<<<"e", "n", "-", "G", "B">>, <<"e", "n", "_", "G", "B">>, <<"e", "n", "-", "U", "K">>>>) @@
    ("AU" :> <<<<"e", "n", "-", "A", "U">>, <<"e", "n", "_", "A", "U">>>>) @@
    ("IN" :> <<<<"e", "n", "-", "I", "N">>, <<"e", "n", "_", "I", "N">>>>)

\* preferredLangs, line 388; hint "" stands for an absent accentHint.
preferredLangs(hint) ==
    IF hint # "" /\ hint \in DOMAIN accentMap THEN accentMap[hint] ELSE <<<<"e", "n", "-", "U", "S">>>>

MatchesAccent(v, langs) ==
    \E i \in 1..Len(langs) : Includes(v.lang, ReplaceUnderscore(langs[i]))

HighQuality(v) ==
    \/ Includes(v.name, <<"G", "o", "o", "g", "l", "e">>)
    \/ Includes(v.name, <<"M", "i", "c", "r", "o", "s", "o", "f", "t">>)
    \/ Includes(v.name, <<"N", "a", "t", "u", "r", "a", "l">>)

\* The priority list with the first two entries in the wrong order of the
\* third and second (mutant of voicePriorities).
voicePrioritiesSwapped(k, v, langs) ==
    CASE k = 1 -> MatchesAccent(v, langs) /\ HighQuality(v)
      [] k = 2 -> StartsWith(v.lang, <<"e", "n">>) /\ HighQuality(v)
      [] k = 3 -> MatchesAccent(v, langs)
      [] OTHER -> StartsWith(v.lang, <<"e", "n">>)

\* voicePriorities[k](v), lines 391-405.
voicePriorities(k, v, langs) ==
    CASE k = 1 -> MatchesAccent(v, langs) /\ HighQuality(v)
      [] k = 2 -> MatchesAccent(v, langs)
      [] k = 3 -> StartsWith(v.lang, <<"e", "n">>) /\ HighQuality(v)
      [] OTHER -> StartsWith(v.lang, <<"e", "n">>)

\* voices.find(priority) for the k-th priority from voice i on: the index of
\* the first match, 0 for undefined.
RECURSIVE Find(_, _, _, _)
Find(vs, k, langs, i) ==
    IF i > Len(vs) THEN 0
    ELSE IF voicePriorities(k, vs[i], langs) THEN i
    ELSE Find(vs, k, langs, i + 1)

\* The loop of lines 407-410 from priority k on, then line 413.
RECURSIVE FirstMatch(_, _, _)
FirstMatch(vs, k, langs) ==
    IF k > 4 THEN vs[1]
    ELSE IF Find(vs, k, langs, 1) # 0 THEN vs[Find(vs, k, langs, 1)]
    ELSE FirstMatch(vs, k + 1, langs)

\* null
NoVoice == [null |-> TRUE]

getBestVoice(vs, hint) ==
    IF Len(vs) = 0 THEN NoVoice
    ELSE FirstMatch(vs, 1, preferredLangs(hint))

\* Voices a browser may offer and accent hints a caller may pass.
SomeVoices ==
    {[lang |-> <<"e", "n", "-", "U", "S">>, name |-> <<"G", "o", "o", "g", "l", "e", " ", "U", "S", " ", "E", "n", "g", "l", "i", "s", "h">>],
     [lang |-> <<"e", "n", "-", "U", "S">>, name |-> <<"S", "a", "m", "a", "n", "t", "h", "a">>],
     [lang |-> <<"e", "n", "-", "G", "B">>, name |-> <<"M", "i", "c", "r", "o", "s", "o", "f", "t", " ", "H", "a", "z", "e", "l">>],
     [lang |-> <<"e", "n", "-", "G", "B">>, name |-> <<"D", "a", "n", "i", "e", "l">>],
     [lang |-> <<"e", "n", "_", "U", "S">>, name |-> <<"A", "l", "e", "x">>],
     [lang |-> <<"e", "n", "-", "A", "U">>, name |-> <<"K", "a", "r", "e", "n", " ", "(", "N", "a", "t", "u", "r", "a", "l", ")">>],
     [lang |-> <<"f", "r", "-", "F", "R">>, name |-> <<"G", "o", "o", "g", "l", "e", " ", "f", "r", "a", "n", "c", "a", "i", "s">>],
     [lang |-> <<"d", "e", "-", "D", "E">>, name |-> <<"A", "n", "n", "a">>]}

Hints == {"", "US", "GB", "AU", "IN", "CA"}

VoiceLists == UNION {[1..n -> SomeVoices] : n \in 0..MaxVoices}

VoiceFrame ==
    UNCHANGED <<queueVars, playerVars, edgeVars, screenVars,
                timer, editor, uploader, mic>>

\* setVoice calls getBestVoice(), line 438.
callGetBestVoice ==
    /\ bestVoice' = getBestVoice(voices, accentHint)
    /\ UNCHANGED <<voices, accentHint>>
    /\ VoiceFrame

InitVoice ==
    /\ TimerIdle /\ EditorIdle /\ UploaderIdle /\ MicIdle
    /\ QueueIdle
    /\ PlayerIdle
    /\ EdgeIdle
    /\ ScreenIdle
    /\ voices \in VoiceLists
    /\ accentHint \in Hints
    /\ bestVoice = NotCalled

NextVoice == callGetBestVoice

SpecVoice == InitVoice /\ [][NextVoice]_vars

(***************************************************************************)
(* Claims about useAudioClipQueue (specification SpecQueue).               *)
(***************************************************************************)

CallIds == 1..Len(calls)

\* The calls that took a session id (a non-empty list).
Sessions == {c \in CallIds : calls[c].pc # "returned"}

Playing(call) == {k \in DOMAIN call.audio : call.audio[k] = "playing"}

\* C1: within one playClips call the clips are started in list order, none
\* twice, a clip only after the previous clip of the call has ended, never two
\* clips of the call playing at once; a call that returned while it still was
\* the current session, no clip having failed, has started every clip once.
C1_InOrderOneAtATime ==
    \A c \in CallIds :
        LET call == calls[c]
        IN /\ \A j \in 1..Len(call.started) : call.started[j] = j
           /\ \A j \in 2..Len(call.started) : call.audio[j - 1] = "ended"
           /\ Cardinality(Playing(call)) <= 1
           /\ \A k \in DOMAIN call.created : call.created[k] <= 1
           /\ (call.pc = "done" /\ call.endRef = call.sessionId)
                  => /\ Len(call.started) = Len(call.clips)
                     /\ \A k \in DOMAIN call.audio : call.audio[k] = "ended"

\* A call with two clips played both to the end and returned as the current
\* session.
C1_Witness ==
    \E c \in CallIds :
        /\ calls[c].pc = "done"
        /\ calls[c].endRef = calls[c].sessionId
        /\ Len(calls[c].started) = 2

\* C2: once the session counter differs from a call's session id, that call
\* starts no further clip (and creates no URL); all it still does is leave the
\* await of the clip it is playing and finish.
C2_SupersededStartsNothing ==
    [][\A c \in CallIds :
          (calls[c].pc # "returned" /\ playSessionRef # calls[c].sessionId)
              => /\ calls'[c].started = calls[c].started
                 /\ calls'[c].created = calls[c].created
                 /\ \/ calls'[c] = calls[c]
                    \/ /\ calls[c].pc = "playing"
                       /\ calls'[c].pc \in {"done", "failed"}]_vars

\* A call that was superseded while its first clip played has finished without
\* starting its second clip.
C2_Witness ==
    \E c \in CallIds :
        /\ calls[c].pc = "done"
        /\ calls[c].endRef # calls[c].sessionId
        /\ Len(calls[c].started) = 1
        /\ Len(calls[c].clips) = 2
        /\ calls[c].audio[1] = "ended"

\* C3: while the call holding the current session id is playing, isSpeaking
\* is true; isSpeaking goes from true to false only by stop() or by the
\* completion of the call whose session id is the current counter; at most
\* one call holds the current session id.
C3_OneActiveSequence ==
    [][/\ \A c \in 1..Len(calls') :
              (calls'[c].pc = "playing" /\ calls'[c].sessionId = playSessionRef')
                  => isSpeaking'
       /\ Cardinality({c \in 1..Len(calls') :
              calls'[c].pc # "returned" /\ calls'[c].sessionId = playSessionRef'}) <= 1
       /\ (isSpeaking /\ ~isSpeaking')
              => \/ playSessionRef' # playSessionRef
                 \/ \E c \in CallIds :
                        /\ calls[c].sessionId = playSessionRef
                        /\ calls[c].pc = "playing"
                        /\ calls'[c].pc = "done"]_vars

\* A superseded call finished while the newer call was the current session,
\* and the newer call is still playing with isSpeaking true.
C3_Witness ==
    \E c, d \in CallIds :
        /\ calls[c].pc = "done"
        /\ calls[c].sessionId # calls[d].sessionId
        /\ calls[c].endRef = calls[d].sessionId
        /\ calls[d].sessionId = playSessionRef
        /\ calls[d].pc = "playing"
        /\ isSpeaking

\* C4: a call one of whose clips failed to play (error event or rejected
\* play()) has ended with the error, the failed clip is the last one it
\* started, it was started once, and no later clip was started.
C4_FailureAborts ==
    \A c \in CallIds :
        LET call == calls[c]
        IN \A k \in DOMAIN call.audio :
               call.audio[k] \in {"failed", "rejected"}
                   => /\ call.pc = "failed"
                      /\ Len(call.started) = k
                      /\ call.created[k] = 1
                      /\ \A j \in DOMAIN call.audio :
                             j > k => call.audio[j] = "idle" /\ call.created[j] = 0

\* The first clip of a two-clip call failed and the call has ended.
C4_Witness ==
    \E c \in CallIds :
        /\ Len(calls[c].clips) = 2
        /\ calls[c].audio[1] \in {"failed", "rejected"}
        /\ calls[c].pc = "failed"

\* C5: a step that changes the session counter (stop() or a new non-empty
\* playClips) leaves every clip that is playing playing.
C5_SupersedingKeepsClipPlaying ==
    [][playSessionRef' # playSessionRef
          => \A c \in CallIds : \A k \in DOMAIN calls[c].audio :
                 calls[c].audio[k] = "playing" => calls'[c].audio[k] = "playing"]_vars

\* A clip of a superseded call and the first clip of the newer call are
\* playing at the same time.
C5_Witness ==
    \E c, d \in CallIds :
        /\ calls[c].sessionId < calls[d].sessionId
        /\ calls[d].sessionId = playSessionRef
        /\ calls[c].pc = "playing"
        /\ Playing(calls[c]) # {}
        /\ calls[d].audio[1] = "playing"

\* C6: the session counter never decreases; stop() and every playClips call
\* with a non-empty list add exactly 1 to it, no other step changes it, and no
\* two calls hold the same session id.
C6_SessionCounter ==
    [][/\ playSessionRef' >= playSessionRef
       /\ stop => playSessionRef' = playSessionRef + 1
       /\ \A clips \in ClipLists :
              playClips(clips) => playSessionRef' = playSessionRef + 1
       /\ ~(stop \/ \E clips \in ClipLists : playClips(clips))
              => playSessionRef' = playSessionRef
       /\ \A c, d \in 1..Len(calls') :
              (c # d /\ calls'[c].pc # "returned" /\ calls'[d].pc # "returned")
                  => calls'[c].sessionId # calls'[d].sessionId]_vars

\* Two calls took session ids and a stop() was made as well.
C6_Witness ==
    /\ Cardinality(Sessions) = 2
    /\ playSessionRef = 3

(***************************************************************************)
(* Claims about SafeAudioPlayer (specification SpecPlayerFixed: audioUrl   *)
(* and fallbackText do not change after the mount).                        *)
(***************************************************************************)

\* The load whose handlers belong to the current render.
CurrentLoad == Len(loads)

\* The state changes the specification lists.
ListedChanges ==
    {<<"loading", "ready">>, <<"ready", "playing">>, <<"playing", "paused">>,
     <<"paused", "playing">>, <<"loading", "fallback">>, <<"fallback", "playing">>}

\* C7: with audioUrl and fallbackText fixed, every change of the state of the
\* mounted player is one of the listed changes or a change to error.
C7_OnlyListedChanges ==
    [][(/\ player.mounted /\ player'.mounted
        /\ props'.audioUrl = props.audioUrl
        /\ props'.fallbackText = props.fallbackText
        /\ player'.state # player.state)
          => \/ <<player.state, player'.state>> \in ListedChanges
             \/ player'.state = "error"]_vars

\* What C8 asks of a step in which the primary asset fails.
FallbackStarted ==
    /\ player'.state = "fallback"
    /\ player'.usingFallback
    /\ player'.utt = "queued"
    /\ player'.state # "error"
    /\ player'.onErrorCalled = player.onErrorCalled

C9_EveryFailureIsError ==
    /\ (props.audioUrl = "none" /\ props.fallbackText = "")
           => player.state = "error"
    /\ [][(player.mounted /\ props.fallbackText = "")
             => /\ headResult(CurrentLoad, FALSE) => player'.state = "error"
                /\ audioOnError(CurrentLoad) => player'.state = "error"]_vars

\* C9 amended: without fallbackText the player enters the error state when
\* audioUrl is absent or the media element of the current load fires an
\* error; a failed HEAD check alone leaves the player as it is.
C9_FailureWithoutFallback ==
    /\ (props.audioUrl = "none" /\ props.fallbackText = "")
           => player.state = "error"
    /\ [][(player.mounted /\ props.fallbackText = "")
             => /\ headResult(CurrentLoad, FALSE) => player' = player
                /\ audioOnError(CurrentLoad) => player'.state = "error"]_vars

\* Without fallbackText the HEAD check of the current load has failed and the
\* player is not in the error state: its media element loaded.
C9_Witness ==
    /\ player.mounted
    /\ props.fallbackText = ""
    /\ loads[CurrentLoad].head = "failed"
    /\ loads[CurrentLoad].el.meta
    /\ player.state = "ready"

(***************************************************************************)
(* Claims about getBestVoice (specification SpecVoice).                    *)
(***************************************************************************)

\* The accent languages of a hint, as the claim names them.
AccentLanguages(hint) ==
    CASE hint = "US" -> {<<"e", "n", "-", "U", "S">>}
      [] hint = "GB" -> {<<"e", "n", "-", "G", "B">>, <<"e", "n", "-", "U", "K">>}
      [] hint = "AU" -> {<<"e", "n", "-", "A", "U">>}
      [] hint = "IN" -> {<<"e", "n", "-", "I", "N">>}
      [] OTHER -> {<<"e", "n", "-", "U", "S">>}

AccentMatched(v, hint) == \E l \in AccentLanguages(hint) : Includes(v.lang, l)

NamedHighQuality(v) ==
    \E w \in {<<"G", "o", "o", "g", "l", "e">>, <<"M", "i", "c", "r", "o", "s", "o", "f", "t">>, <<"N", "a", "t", "u", "r", "a", "l">>} : Includes(v.name, w)

English(v) == Len(v.lang) >= 2 /\ v.lang[1] = "e" /\ v.lang[2] = "n"

\* The four classes of the claim, best first.
InClass(k, v, hint) ==
    CASE k = 1 -> AccentMatched(v, hint) /\ NamedHighQuality(v)
      [] k = 2 -> AccentMatched(v, hint)
      [] k = 3 -> English(v) /\ NamedHighQuality(v)
      [] OTHER -> English(v)

ClassMembers(k) == {i \in 1..Len(voices) : InClass(k, voices[i], accentHint)}

NonEmptyClasses == {k \in 1..4 : ClassMembers(k) # {}}

Least(S) == CHOOSE x \in S : \A y \in S : x <= y

C11_NoSeekInFallback ==
    [][\A v \in SeekValues :
          (player.usingFallback /\ handleSeek(v))
              => /\ player'.progress = player.progress
                 /\ player'.state = player.state
                 /\ \A g \in LoadIds : loads'[g].el.time = loads[g].el.time
                 /\ UNCHANGED <<player, loads>>]_vars

\* The player speaks the fallback text while audioRef still holds a media
\* element whose duration is known and whose position differs from the seek
\* value 0: only the usingFallback guard keeps handleSeek from seeking.
C11_Witness ==
    /\ player.mounted
    /\ player.usingFallback
    /\ player.state = "playing"
    /\ player.audioRef # 0
    /\ loads[player.audioRef].el.meta
    /\ loads[player.audioRef].el.time = 50

(***************************************************************************)
(* explain-answer-followup (src/unnamed/part_001, lines 38-205).  Strings  *)
(* that matter are sequences of characters.                                *)
(***************************************************************************)

\* GEMINI_MODELS, line 38.
GEMINI_MODELS == <<"gemini-2.5-flash", "gemini-2.0-flash", "gemini-1.5-flash">>

\* undefined and null where a string may stand: a text is a sequence of
\* one-character strings, so these differ from every text.
Undefined == <<"undefined">>

Null == <<"null">>

\* No value yet: the promise is pending.
Pending == <<"pending">>

\* A response without a body (new Response(null)); also: no response yet.
NoBody == [empty |-> TRUE]

\* The JSON bodies of the responses.
ErrorBody(msg) == [error |-> msg]

AnswerBody(text) == [response |-> text, success |-> TRUE]

Whitespace == {" ", "\n", "\t"}

\* String.prototype.trim
RECURSIVE TrimStart(_)
TrimStart(str) ==
    IF str # << >> /\ Head(str) \in Whitespace THEN TrimStart(Tail(str)) ELSE str

RECURSIVE TrimEnd(_)
TrimEnd(str) ==
    IF str # << >> /\ str[Len(str)] \in Whitespace
    THEN TrimEnd(SubSeq(str, 1, Len(str) - 1))
    ELSE str

Trim(str) == TrimEnd(TrimStart(str))

\* What one generateContent call can come to: the fetch or the parsing of
\* its body throws, or a response arrives with a status and, in its body,
\* candidates[0].content.parts[0].text (Undefined when a link of that chain is
\* missing).
GeminiOutcomes ==
    {[threw |-> TRUE, status |-> 0, text |-> Undefined]}
    \cup {[threw |-> FALSE, status |-> s, text |-> Undefined] : s \in {429, 500}}
    \cup {[threw |-> FALSE, status |-> 200, text |-> t] :
             t \in {Undefined, << >>, <<"o", "k">>, <<" ", "o", "k", "\n">>, <<" ">>}}

\* A test that takes every text the response holds, the empty one included
\* (mutant of HasText).
HasTextEvenEmpty(o) == ~o.threw /\ o.status = 200 /\ o.text # Undefined

\* Lines 60-71: the call gave a text callGemini returns, `if (text)`.
HasText(o) == ~o.threw /\ o.status = 200 /\ o.text # Undefined /\ o.text # << >>

\* One pass of the loop of callGemini, lines 39-77, for the next model with
\* outcome o: the model is called; its text is returned, or the loop goes on,
\* or, after the last model, null is returned.
GeminiStep(f, o) ==
    LET model == GEMINI_MODELS[Len(f.tried) + 1]
        g == [f EXCEPT !.tried = Append(@, model), !.outcomes = Append(@, o)]
    IN IF HasText(o) THEN [g EXCEPT !.result = o.text]
       ELSE IF Len(g.tried) = Len(GEMINI_MODELS) THEN [g EXCEPT !.result = Null]
       ELSE g

\* The request bodies: both fields, one of them or both missing (or empty),
\* or a body that is no JSON.
Bodies == {"both", "noQuestion", "noContext", "neither", "invalid"}

\* A request and the environment it meets: the HTTP method, whether getUser
\* finds a user, whether that user has a GEMINI_API_KEY row, whether
\* app_encryption_key is configured, whether the stored value decrypts.
Requests ==
    [method : {"OPTIONS", "POST"}, user : BOOLEAN, secret : BOOLEAN,
     encryptionKey : BOOLEAN, decrypts : BOOLEAN, body : Bodies]

\* The handler has received request r and stands at its first line.
Received(r) ==
    [pc |-> "start", req |-> r, tried |-> << >>, outcomes |-> << >>,
     result |-> Pending, status |-> 0, response |-> NoBody]

\* return new Response(...) with a status and what the client reads in it.
Respond(f, status, response) ==
    [f EXCEPT !.pc = "responded", !.status = status, !.response = response]

\* Lines 184-196: the answer after callGemini returned.
RespondResult(f) ==
    IF f.result = Pending THEN f
    ELSE IF f.result = Null THEN Respond(f, 500, ErrorBody("Failed to generate response"))
    ELSE Respond(f, 200, AnswerBody(Trim(f.result)))

FollowupFrame ==
    UNCHANGED <<queueVars, playerVars, voiceVars, analysis, screenVars,
                timer, editor, uploader, mic>>

\* Lines 81-83: the CORS preflight is answered at once.
followupPreflight ==
    /\ followup.pc = "start"
    /\ followup.req.method = "OPTIONS"
    /\ followup' = Respond(followup, 200, NoBody)
    /\ FollowupFrame

\* A handler that does not turn away a caller without a user (mutant of
\* followupAuth).
followupAuthSkipped ==
    /\ followup.pc = "start"
    /\ followup.req.method # "OPTIONS"
    /\ followup' = [followup EXCEPT !.pc = "secret"]
    /\ FollowupFrame

\* Lines 85-101: the client is created and getUser() has answered.
followupAuth ==
    /\ followup.pc = "start"
    /\ followup.req.method # "OPTIONS"
    /\ followup' = IF ~followup.req.user
                   THEN Respond(followup, 401, ErrorBody("Unauthorized"))
                   ELSE [followup EXCEPT !.pc = "secret"]
    /\ FollowupFrame

\* Lines 104-123: the user_secrets query has answered; without
\* app_encryption_key the handler throws into the catch of lines 198-204.
followupSecret ==
    /\ followup.pc = "secret"
    /\ followup' = IF ~followup.req.secret
                   THEN Respond(followup, 400, ErrorBody("Gemini API key not found"))
                   ELSE IF ~followup.req.encryptionKey
                   THEN Respond(followup, 500, ErrorBody("Encryption key not configured"))
                   ELSE [followup EXCEPT !.pc = "decrypt"]
    /\ FollowupFrame

\* Line 123: decryptApiKey has settled; a rejection goes to the catch.
followupDecrypt ==
    /\ followup.pc = "decrypt"
    /\ followup' = IF ~followup.req.decrypts
                   THEN Respond(followup, 500, ErrorBody("decryption failed"))
                   ELSE [followup EXCEPT !.pc = "parse"]
    /\ FollowupFrame

\* Lines 126-182: req.json() has settled; the prompt is built and callGemini
\* sends its first request.
followupParse ==
    /\ followup.pc = "parse"
    /\ followup' = IF followup.req.body = "invalid"
                   THEN Respond(followup, 500, ErrorBody("invalid JSON"))
                   ELSE IF followup.req.body # "both"
                   THEN Respond(followup, 400, ErrorBody("Missing question or context"))
                   ELSE [followup EXCEPT !.pc = "gemini"]
    /\ FollowupFrame

\* The generateContent request callGemini awaits has come to outcome o;
\* callGemini goes on or returns, and the handler answers (lines 182-196).
followupGemini(o) ==
    /\ followup.pc = "gemini"
    /\ followup' = RespondResult(GeminiStep(followup, o))
    /\ FollowupFrame

InitFollowup ==
    /\ TimerIdle /\ EditorIdle /\ UploaderIdle /\ MicIdle
    /\ QueueIdle
    /\ PlayerIdle
    /\ VoiceIdle
    /\ ScreenIdle
    /\ analysis = NoRequest
    /\ \E r \in Requests : followup = Received(r)

NextFollowup ==
    \/ followupPreflight
    \/ followupAuth
    \/ followupSecret
    \/ followupDecrypt
    \/ followupParse
    \/ \E o \in GeminiOutcomes : followupGemini(o)

SpecFollowup == InitFollowup /\ [][NextFollowup]_vars

\* What the claims call a model that failed: a non-OK status, an exception,
\* or no text.
ModelFailed(o) ==
    \/ o.threw
    \/ o.status # 200
    \/ o.text \in {Undefined, << >>}

\* C12: callGemini calls the models in the order gemini-2.5-flash,
\* gemini-2.0-flash, gemini-1.5-flash, each at most once; every model before
\* the last one called has failed; while it runs, every model called so far
\* has failed and a model is left; it has returned a text exactly when the
\* last model called gave that non-empty text, and null exactly when all
\* three models were called and failed.
C12_ModelFallback ==
    followup.pc # "idle" =>
        LET f == followup
            n == Len(f.tried)
        IN /\ n <= 3
           /\ f.tried = SubSeq(<<"gemini-2.5-flash", "gemini-2.0-flash",
                                 "gemini-1.5-flash">>, 1, n)
           /\ Len(f.outcomes) = n
           /\ \A i \in 1..(n - 1) : ModelFailed(f.outcomes[i])
           /\ f.pc = "gemini" => /\ f.result = Pending
                                 /\ n < 3
                                 /\ \A i \in 1..n : ModelFailed(f.outcomes[i])
           /\ (f.pc = "responded" /\ n > 0) => f.result # Pending
           /\ n = 0 => f.result = Pending
           /\ (n > 0 /\ ~ModelFailed(f.outcomes[n]))
                  => f.result = f.outcomes[n].text /\ f.result # << >>
           /\ (n > 0 /\ ModelFailed(f.outcomes[n]) /\ n = 3) => f.result = Null
           /\ f.result = Null
                  => n = 3 /\ \A i \in 1..3 : ModelFailed(f.outcomes[i])

\* The first model answered a non-OK status, the second gave an empty text,
\* and the text of the third was returned.
C12_Witness ==
    /\ followup.pc = "responded"
    /\ Len(followup.tried) = 3
    /\ followup.outcomes[1].status = 429
    /\ followup.outcomes[2].status = 200
    /\ followup.outcomes[2].text = << >>
    /\ followup.result = <<"o", "k">>

\* t is s without its leading and trailing whitespace.
IsTrimOf(t, s) ==
    /\ t = << >> \/ (t[1] \notin Whitespace /\ t[Len(t)] \notin Whitespace)
    /\ \E i \in 0..Len(s) :
          /\ i + Len(t) <= Len(s)
          /\ SubSeq(s, i + 1, i + Len(t)) = t
          /\ \A j \in (1..i) \cup ((i + Len(t) + 1)..Len(s)) : s[j] \in Whitespace

\* The body lacks question or context.
FieldMissing(r) == r.body \in {"noQuestion", "noContext", "neither"}

\* What C13 says of the answer once a model was asked: 500 when every model
\* failed, otherwise 200 with the trimmed text.
AnsweredFromModels(f) ==
    IF \A i \in 1..Len(f.outcomes) : ModelFailed(f.outcomes[i])
    THEN f.status = 500 /\ Len(f.tried) = 3
    ELSE /\ f.status = 200
         /\ \E i \in 1..Len(f.outcomes) :
                /\ ~ModelFailed(f.outcomes[i])
                /\ f.response.success
                /\ IsTrimOf(f.response.response, f.outcomes[i].text)

QueryLimit == 5

Users == {"u1", "u2"}

\* A submission row: its id, its user_id and its completed_at.
Row(id, user, completed) == [id |-> id, user |-> user, completed |-> completed]

\* The databases the function may meet: one where u1 has more reading
\* submissions than the limit, and an empty one.
Databases ==
    {[reading   |-> {Row(i, "u1", i) : i \in 1..(QueryLimit + 1)} \cup {Row(10, "u2", 3)},
      listening |-> {Row(20, "u1", 2), Row(21, "u1", 7), Row(22, "u2", 4)}],
     [reading |-> {}, listening |-> {}]}

\* .order('completed_at', { ascending: false }): the rows, latest first.
RECURSIVE OrderDescending(_)
OrderDescending(rows) ==
    IF rows = {} THEN << >>
    ELSE LET latest == CHOOSE r \in rows : \A q \in rows : q.completed <= r.completed
         IN <<latest>> \o OrderDescending(rows \ {latest})

\* .limit(n)
Limit(seq, n) == SubSeq(seq, 1, IF Len(seq) < n THEN Len(seq) ELSE n)

\* The query of lines 33-38 / 39-44 on a table.
Submissions(table, userId) ==
    Limit(OrderDescending({r \in table : r.user = userId}), QueryLimit)

\* testData is absent from the body.
NoTestData == [absent |-> TRUE]

\* What a client may send as testData.reading / listening / summary.
ClientValue(key) ==
    CASE key = "reading" -> <<Row(99, "u9", 9)>>
      [] key = "listening" -> << >>
      [] OTHER -> <<Row(0, "u1", 0)>>

TestDatas ==
    {NoTestData} \cup
    {[k \in keys |-> ClientValue(k)] : keys \in SUBSET {"reading", "listening", "summary"}}

\* { ...a, ...b }: the keys of both, b's value where both have the key;
\* spreading undefined adds nothing.
ObjectSpread(a, b) ==
    IF b = NoTestData THEN a
    ELSE [k \in (DOMAIN a) \cup (DOMAIN b) |-> IF k \in DOMAIN b THEN b[k] ELSE a[k]]

\* Lines 47-51.
DetailedTestData(reading, listening, testData) ==
    ObjectSpread([reading |-> reading, listening |-> listening], testData)

\* The request bodies: no JSON, or an object with userId and testData.
AnalysisBodies ==
    {[valid |-> FALSE, userId |-> "u1", testData |-> NoTestData]}
    \cup [valid : {TRUE}, userId : Users, testData : TestDatas]

\* A request and the environment it meets.
AnalysisRequests ==
    [method : {"OPTIONS", "POST"}, body : AnalysisBodies,
     apiKey : BOOLEAN, supabaseUrl : BOOLEAN, supabaseKey : BOOLEAN,
     db : Databases]

\* Nothing was sent to the gateway.
NotSent == [notSent |-> TRUE]

\* What the query results stand at before the queries ran.
NotFetched == [reading |-> << >>, listening |-> << >>]

\* The gateway has not answered.
NoOutcome == [none |-> TRUE]

\* outcome: what the gateway request came to.
AnalysisReceived(r) ==
    [pc |-> "start", req |-> r, queried |-> FALSE, fetched |-> NotFetched,
     forwarded |-> NotSent, outcome |-> NoOutcome, status |-> 0,
     analytics |-> "none"]

\* return new Response(...): the status and the analytics field of the body
\* ("none": the body has no such field, "null", "parsed").
AnalysisRespond(a, status, analytics) ==
    [a EXCEPT !.pc = "responded", !.status = status, !.analytics = analytics]

\* What the gateway request can come to: the fetch throws, or a response
\* with a status and a body; reading the body (response.text(),
\* response.json()) fails (readable FALSE), or it gives a content that holds
\* a JSON object ("json"), braces that do not parse ("badjson"), no braces
\* ("text"), or nothing ("none").
GatewayOutcomes ==
    {[threw |-> TRUE, status |-> 0, readable |-> FALSE, content |-> "none"]}
    \cup [threw : {FALSE}, status : {429, 402, 500, 200}, readable : {FALSE},
          content : {"none"}]
    \cup [threw : {FALSE}, status : {429, 402, 500}, readable : {TRUE},
          content : {"none"}]
    \cup [threw : {FALSE}, status : {200}, readable : {TRUE},
          content : {"none", "text", "badjson", "json"}]

AnalysisFrame ==
    UNCHANGED <<queueVars, playerVars, voiceVars, followup, screenVars,
                timer, editor, uploader, mic>>

\* Lines 10-12.
analysisPreflight ==
    /\ analysis.pc = "start"
    /\ analysis.req.method = "OPTIONS"
    /\ analysis' = AnalysisRespond(analysis, 200, "none")
    /\ AnalysisFrame

\* Lines 14-45 and 97-121: the body is parsed and the configuration read;
\* the queries are sent, or, without database configuration, the request's
\* testData goes to the gateway.
analysisStart ==
    /\ analysis.pc = "start"
    /\ analysis.req.method # "OPTIONS"
    /\ LET r == analysis.req
       IN analysis' =
              IF ~r.body.valid \/ ~r.apiKey
              THEN AnalysisRespond(analysis, 500, "null")
              ELSE IF r.supabaseUrl /\ r.supabaseKey
              THEN [analysis EXCEPT !.pc = "query"]
              ELSE [analysis EXCEPT !.pc = "gateway",
                                    !.forwarded = r.body.testData]
    /\ AnalysisFrame

\* Lines 32-52 and 97-121: both queries have answered (okR / okL: with data;
\* otherwise data is null); detailedTestData is built and sent to the gateway.
analysisQueried(okR, okL) ==
    /\ analysis.pc = "query"
    /\ LET r == analysis.req
           reading == IF okR THEN Submissions(r.db.reading, r.body.userId) ELSE << >>
           listening == IF okL THEN Submissions(r.db.listening, r.body.userId) ELSE << >>
       IN analysis' =
              [analysis EXCEPT
                  !.pc = "gateway",
                  !.queried = TRUE,
                  !.fetched = [reading |-> reading, listening |-> listening],
                  !.forwarded = DetailedTestData(reading, listening, r.body.testData)]
    /\ AnalysisFrame

\* A handler that answers 500 for every non-OK gateway status (mutant of
\* AnswerGateway).
AnswerGatewayFlat(a, o) ==
    IF o.threw \/ ~o.readable \/ o.status # 200 THEN AnalysisRespond(a, 500, "null")
    ELSE IF o.content = "json" THEN AnalysisRespond(a, 200, "parsed")
    ELSE AnalysisRespond(a, 200, "null")

\* Lines 123-173: the answer to gateway outcome o; an exception of the fetch
\* or of reading the body goes to the catch of lines 167-173.
AnswerGateway(a, o) ==
    IF o.threw \/ ~o.readable THEN AnalysisRespond(a, 500, "null")
    ELSE IF o.status = 429 THEN AnalysisRespond(a, 429, "none")
    ELSE IF o.status = 402 THEN AnalysisRespond(a, 402, "none")
    ELSE IF o.status # 200 THEN AnalysisRespond(a, 500, "null")
    ELSE IF o.content = "json" THEN AnalysisRespond(a, 200, "parsed")
    ELSE AnalysisRespond(a, 200, "null")

\* Lines 123-173: the gateway request has come to outcome o.
analysisGateway(o) ==
    /\ analysis.pc = "gateway"
    /\ analysis' = AnswerGateway([analysis EXCEPT !.outcome = o], o)
    /\ AnalysisFrame

InitAnalysis ==
    /\ TimerIdle /\ EditorIdle /\ UploaderIdle /\ MicIdle
    /\ QueueIdle
    /\ PlayerIdle
    /\ VoiceIdle
    /\ ScreenIdle
    /\ followup = NoRequest
    /\ \E r \in AnalysisRequests : analysis = AnalysisReceived(r)

NextAnalysis ==
    \/ analysisPreflight
    \/ analysisStart
    \/ \E okR, okL \in BOOLEAN : analysisQueried(okR, okL)
    \/ \E o \in GatewayOutcomes : analysisGateway(o)

SpecAnalysis == InitAnalysis /\ [][NextAnalysis]_vars

\* C14: with the database URL and the service key configured, the reading
\* and listening data sent to the gateway are the rows fetched from the
\* database for the request's userId, at most 5 of each kind and the latest
\* ones, whatever testData holds.
C14_ForwardsDatabaseRows ==
    (/\ analysis.pc # "idle"
     /\ analysis.forwarded # NotSent
     /\ analysis.req.supabaseUrl
     /\ analysis.req.supabaseKey)
        => /\ analysis.queried
           /\ analysis.forwarded.reading = analysis.fetched.reading
           /\ analysis.forwarded.listening = analysis.fetched.listening
           /\ \A kind \in {"reading", "listening"} :
                 LET sent == analysis.forwarded[kind]
                     mine == {r \in analysis.req.db[kind] :
                                 r.user = analysis.req.body.userId}
                 IN /\ Len(sent) <= 5
                    /\ \A i \in 1..Len(sent) : sent[i] \in mine
                    /\ \A r \in mine :
                          (\A i \in 1..Len(sent) : sent[i] # r)
                              => /\ Len(sent) = 5 \/ Len(sent) = 0
                                 /\ \A i \in 1..Len(sent) :
                                        sent[i].completed >= r.completed

(***************************************************************************)
(* AILoadingScreen (src/src/components/test-list/BookSectionNew.tsx, lines *)
(* 713-742).  The progress percentage is a fraction num / den.             *)
(***************************************************************************)

\* Timer ticks followed in one behaviour.
MaxElapsed == 12

\* The estimatedSeconds prop: not given, or a number of seconds.
Estimates ==
    {[given |-> FALSE, seconds |-> 0]}
    \cup [given : {TRUE}, seconds : {0, 1, 2, 3, 7, 10}]

\* progressPercent is null.
NoProgress == [null |-> TRUE]

\* A progress computed without the cap (mutant of ProgressPercent).
ProgressPercentUncapped(elapsedSeconds, estimatedSeconds) ==
    IF ~estimatedSeconds.given \/ estimatedSeconds.seconds = 0
    THEN NoProgress
    ELSE [num |-> elapsedSeconds * 100, den |-> estimatedSeconds.seconds]

\* progressPercent, lines 740-742: `estimatedSeconds ? ... : null` takes the
\* null branch for undefined and for 0.
ProgressPercent(elapsedSeconds, estimatedSeconds) ==
    IF ~estimatedSeconds.given \/ estimatedSeconds.seconds = 0
    THEN NoProgress
    ELSE IF elapsedSeconds * 100 >= 95 * estimatedSeconds.seconds
    THEN [num |-> 95, den |-> 1]
    ELSE [num |-> elapsedSeconds * 100, den |-> estimatedSeconds.seconds]

\* The screen as rendered with elapsedSeconds e.
Rendered(estimatedSeconds, e) ==
    [mounted          |-> TRUE,
     estimatedSeconds |-> estimatedSeconds,
     elapsedSeconds   |-> e,
     progressPercent  |-> ProgressPercent(e, estimatedSeconds)]

ScreenFrame ==
    UNCHANGED <<queueVars, playerVars, voiceVars, edgeVars,
                timer, editor, uploader, mic>>

\* The interval callback of lines 725-727 and the render that follows.
screenTick ==
    /\ screen.mounted
    /\ screen.elapsedSeconds < MaxElapsed
    /\ screen' = Rendered(screen.estimatedSeconds, screen.elapsedSeconds + 1)
    /\ ScreenFrame

\* The screen unmounts: clearInterval, line 729.
screenUnmount ==
    /\ screen.mounted
    /\ screen' = [screen EXCEPT !.mounted = FALSE]
    /\ ScreenFrame

\* The screen was mounted: useState(0), line 721.
InitScreen ==
    /\ TimerIdle /\ EditorIdle /\ UploaderIdle /\ MicIdle
    /\ QueueIdle
    /\ PlayerIdle
    /\ VoiceIdle
    /\ EdgeIdle
    /\ \E est \in Estimates : screen = Rendered(est, 0)

NextScreen ==
    \/ screenTick
    \/ screenUnmount

SpecScreen == InitScreen /\ [][NextScreen]_vars

\* min(95, elapsed / estimated * 100) as a relation on fractions.
IsCappedRatio(p, elapsed, estimated) ==
    /\ p # NoProgress
    /\ p.den > 0
    /\ p.num <= 95 * p.den
    /\ IF elapsed * 100 >= 95 * estimated
       THEN p.num = 95 * p.den
       ELSE p.num * estimated = elapsed * 100 * p.den

\* The parts of C15 that do not depend on how an estimate of 0 is read:
\* elapsedSeconds starts at 0, a tick adds exactly 1 to it and nothing else
\* changes it, the progress value of a mounted screen never decreases, and
\* there is no progress value when estimatedSeconds is not given.
ElapsedAndMonotone ==
    /\ screen.elapsedSeconds = 0
    /\ ~screen.estimatedSeconds.given => screen.progressPercent = NoProgress
    /\ [][/\ screenTick => screen'.elapsedSeconds = screen.elapsedSeconds + 1
          /\ ~screenTick => screen'.elapsedSeconds = screen.elapsedSeconds
          /\ ~screen'.estimatedSeconds.given => screen'.progressPercent = NoProgress
          /\ (screen'.mounted /\ screen.progressPercent # NoProgress)
                 => /\ screen'.progressPercent # NoProgress
                    /\ screen'.progressPercent.num * screen.progressPercent.den
                           >= screen.progressPercent.num * screen'.progressPercent.den]_vars

C16_UrlRevokedOnce ==
    \A c \in CallIds : \A k \in DOMAIN calls[c].audio :
        LET call == calls[c]
        IN /\ call.created[k] \in {0, 1}
           /\ call.revoked[k] \in {0, 1}
           /\ call.created[k] = 1 <=> call.audio[k] # "idle"
           /\ call.created[k] = 1 <=> \E j \in 1..Len(call.started) : call.started[j] = k
           /\ call.revoked[k] = 1 <=> call.audio[k] \in {"ended", "failed", "rejected"}
           /\ call.revoked[k] = 0 <=> call.audio[k] \in {"idle", "playing"}

\* A call was superseded while its first clip played; the clip has ended,
\* its URL is revoked, and the second clip, never started, has no URL.
C16_Witness ==
    \E c \in CallIds :
        /\ Len(calls[c].clips) = 2
        /\ calls[c].pc = "done"
        /\ calls[c].endRef # calls[c].sessionId
        /\ calls[c].audio[1] = "ended"
        /\ calls[c].created[1] = 1
        /\ calls[c].revoked[1] = 1
        /\ calls[c].created[2] = 0
        /\ calls[c].revoked[2] = 0

\* The call that started the latest sequence.
LatestSequence == CHOOSE c \in Sessions : \A d \in Sessions : d <= c

\* C17: once the most recently started sequence has terminated, by playing
\* all its clips or by the failure of a clip, isSpeaking is false.
C17_SilentAfterTermination ==
    (Sessions # {} /\ calls[LatestSequence].pc \in {"done", "failed"})
        => ~isSpeaking

\* C18: playClips with an empty list leaves the session counter, isSpeaking
\* and every earlier call as they are; and a sequence that holds the current
\* session goes on to its next clip when a clip ends, also after an empty
\* call was made.
C18_EmptyListChangesNothing ==
    [][/\ playClipsEmpty
              => /\ playSessionRef' = playSessionRef
                 /\ isSpeaking' = isSpeaking
                 /\ \A c \in CallIds : calls'[c] = calls[c]
       /\ \A c \in CallIds :
              (/\ audioEnded(c)
               /\ \E e \in CallIds : e > c /\ calls[e].pc = "returned"
               /\ \A d \in CallIds : d > c => calls[d].pc = "returned"
               /\ calls[c].sessionId = playSessionRef
               /\ Current(calls[c]) < Len(calls[c].clips))
                  => /\ calls'[c].pc = "playing"
                     /\ calls'[c].started = Append(calls[c].started, Current(calls[c]) + 1)
                     /\ isSpeaking']_vars

\* playClips was called with an empty list after a sequence of two clips had
\* started; the sequence still holds the current session, has gone on to its
\* second clip, and isSpeaking is true.
C18_Witness ==
    /\ Len(calls) = 2
    /\ calls[2].pc = "returned"
    /\ Len(calls[1].clips) = 2
    /\ calls[1].sessionId = playSessionRef
    /\ calls[1].pc = "playing"
    /\ calls[1].started = <<1, 2>>
    /\ isSpeaking

(***************************************************************************)
(* Further claims about SafeAudioPlayer (specifications SpecPlayerFixed    *)
(* and SpecPlayer).                                                        *)
(***************************************************************************)

\* C19: the handlers of one load attempt (its audio.onerror and the catch of
\* its HEAD check) start the fallback speech synthesis at most once.
C19_FallbackOncePerLoad ==
    \A g \in LoadIds : loads[g].tts <= 1

\* Load g belongs to a URL the player has left: audioUrl has changed since,
\* or the player is unmounted.
Left(g) ==
    /\ loads[g].url # "none"
    /\ \/ ~player.mounted
       \/ g < CurrentLoad /\ loads[g].url # props.audioUrl

\* A handler of load g runs: the result of its HEAD check or an event of its
\* media element.
LateHandler(g) ==
    \/ headResult(g, TRUE)
    \/ headResult(g, FALSE)
    \/ audioOnError(g)
    \/ audioOnPlay(g)
    \/ audioOnPause(g)
    \/ audioOnEnded(g)
    \/ \E allowed \in BOOLEAN : audioOnLoadedMetadata(g, allowed)

\* C20: after audioUrl has changed or the player has unmounted, the result of
\* the HEAD check of the previous URL and the events of the previous media
\* element leave the player state as it is and start no speech synthesis.
C20_LateResultsIgnored ==
    [][\A g \in LoadIds :
          (Left(g) /\ LateHandler(g))
              => /\ player'.state = player.state
                 /\ player'.utt = player.utt
                 /\ player'.cancelled = player.cancelled]_vars

\* C21: when the media element of the current load has loaded and the player
\* is ready, usingFallback is false, so that togglePlay acts on the media
\* element and handleSeek seeks.
C21_FallbackFlagFollowsSource ==
    (/\ player.mounted
     /\ player.state = "ready"
     /\ player.audioRef = CurrentLoad
     /\ loads[CurrentLoad].el.src = "url"
     /\ loads[CurrentLoad].el.meta)
        => /\ ~player.usingFallback
           /\ SeekApplies(player, loads)
           /\ TogglePlayPlayer(player) = player

(***************************************************************************)
(* Further claims about analyze-performance (specification SpecAnalysis).  *)
(***************************************************************************)

\* What C22 says of a request whose LOVABLE_API_KEY is not configured.
AnsweredWithoutKey(a) ==
    /\ a.status = 500
    /\ a.analytics = "null"
    /\ ~a.queried
    /\ a.forwarded = NotSent
    /\ a.outcome = NoOutcome

\* What C22 says of the answer to a gateway response with a status and a
\* content.
MappedStatus(a, status, content) ==
    CASE status = 429 -> a.status = 429
      [] status = 402 -> a.status = 402
      [] status = 200 -> /\ a.status = 200
                         /\ a.analytics = "null" <=> content # "json"
                         /\ a.analytics # "null" => a.analytics = "parsed"
      [] OTHER -> a.status = 500 /\ a.analytics = "null"

\* C22 as stated: the answer follows the status of the gateway's response
\* alone: 429 for 429, 402 for 402, 500 with analytics null for any other
\* non-OK status, 200 for OK with analytics null exactly when no JSON object
\* parses from the content; without LOVABLE_API_KEY it is 500 with analytics
\* null and neither the database nor the gateway was called.
C22_StatusMapping ==
    (analysis.pc = "responded" /\ analysis.req.method # "OPTIONS"
         /\ analysis.req.body.valid)
        => /\ ~analysis.req.apiKey => AnsweredWithoutKey(analysis)
           /\ (analysis.outcome # NoOutcome /\ ~analysis.outcome.threw)
                  => MappedStatus(analysis, analysis.outcome.status,
                                  analysis.outcome.content)

\* C22 amended: the mapping holds when the body of the gateway's response
\* can be read; when the request to the gateway throws or the body cannot be
\* read, the answer is 500 with analytics null, whatever the status was.
C22_StatusMappingOfReadableAnswers ==
    (analysis.pc = "responded" /\ analysis.req.method # "OPTIONS"
         /\ analysis.req.body.valid)
        => /\ ~analysis.req.apiKey => AnsweredWithoutKey(analysis)
           /\ analysis.req.apiKey => analysis.outcome # NoOutcome
           /\ (analysis.outcome # NoOutcome /\ analysis.outcome.readable)
                  => MappedStatus(analysis, analysis.outcome.status,
                                  analysis.outcome.content)
           /\ (analysis.outcome # NoOutcome /\ ~analysis.outcome.readable)
                  => analysis.status = 500 /\ analysis.analytics = "null"

\* The gateway answered 200 with a body that could not be read, and the
\* request was answered 500 with analytics null.
C22_Witness ==
    /\ analysis.pc = "responded"
    /\ analysis.outcome # NoOutcome
    /\ ~analysis.outcome.threw
    /\ analysis.outcome.status = 200
    /\ ~analysis.outcome.readable
    /\ analysis.status = 500
    /\ analysis.analytics = "null"

(***************************************************************************)
(* ReadingTimer (src/src/components/reading/ReadingTimer.tsx, lines 12-27) *)
(* under a parent that holds timeLeft and isPaused in its state and        *)
(* toggles isPaused on a click.                                            *)
(***************************************************************************)

\* The largest timeLeft a timer is mounted with.
MaxTime == 30

\* An updater that counts on below 0 (mutant of Countdown).
CountdownUnchecked(prev) == prev - 1

\* The updater of lines 17-23.
Countdown(prev) == IF prev <= 0 THEN 0 ELSE prev - 1

\* The effect of lines 13-27 with isPaused: whether it leaves an interval.
IntervalFor(isPaused) == ~isPaused

TimerFrame ==
    UNCHANGED <<queueVars, playerVars, voiceVars, edgeVars, screenVars,
                editor, uploader, mic>>

\* The interval callback, lines 16-24: the updater runs on the current
\* timeLeft and clears the interval when that is 0 or less.
timerTick ==
    /\ timer.mounted
    /\ timer.interval
    /\ timer' = [timer EXCEPT !.timeLeft = Countdown(@),
                              !.interval = ~(timer.timeLeft <= 0)]
    /\ TimerFrame

\* onTogglePause: the parent flips isPaused; the cleanup of line 26 clears
\* the interval and the effect runs again.
timerTogglePause ==
    /\ timer.mounted
    /\ timer' = [timer EXCEPT !.isPaused = ~@,
                              !.interval = IntervalFor(~timer.isPaused)]
    /\ TimerFrame

\* The timer unmounts: the cleanup of line 26.
timerUnmount ==
    /\ timer.mounted
    /\ timer' = [timer EXCEPT !.mounted = FALSE, !.interval = FALSE]
    /\ TimerFrame

\* The timer was mounted with a timeLeft and isPaused; its effect has run.
InitTimer ==
    /\ QueueIdle /\ PlayerIdle /\ VoiceIdle /\ EdgeIdle /\ ScreenIdle
    /\ EditorIdle /\ UploaderIdle /\ MicIdle
    /\ \E t \in 0..MaxTime, p \in BOOLEAN :
           timer = [mounted |-> TRUE, timeLeft |-> t, isPaused |-> p,
                    interval |-> IntervalFor(p)]

NextTimer ==
    \/ timerTick
    \/ timerTogglePause
    \/ timerUnmount

SpecTimer == InitTimer /\ [][NextTimer]_vars

\* setInterval fires its callback when the interval is left alone for its
\* period: a tick that stays possible happens.
SpecTimerFair == SpecTimer /\ WF_vars(timerTick)

\* C23: timeLeft is never negative; a tick while not paused lowers it by
\* exactly 1 when it is above 0 and leaves it at 0 when it is 0; while
\* isPaused is true no tick is possible and timeLeft does not change.
C23_NeverNegative ==
    /\ timer.timeLeft >= 0
    /\ [][/\ timer'.timeLeft >= 0
          /\ timerTick
                 => /\ ~timer.isPaused
                    /\ timer.timeLeft > 0 => timer'.timeLeft = timer.timeLeft - 1
                    /\ timer.timeLeft = 0 => timer'.timeLeft = 0
          /\ timer.isPaused
                 => /\ ~timer.interval
                    /\ timer'.timeLeft = timer.timeLeft]_vars

\* A timer mounted with 2 seconds was paused and resumed, has counted down
\* to 0 and its interval has cleared itself.
C23_Witness ==
    /\ timer.mounted
    /\ timer.timeLeft = 0
    /\ ~timer.isPaused
    /\ ~timer.interval

\* C24: in a behaviour in which the timer stays mounted and every pause is
\* followed by a resume, timeLeft reaches 0 and stays 0 from then on.
C24_ReachesZero ==
    ([]timer.mounted /\ [](timer.isPaused => <>~timer.isPaused))
        => <>[](timer.timeLeft = 0)

(***************************************************************************)
(* SpeakingPart1Editor (src/unnamed/part_003) and SpeakingPart3Editor      *)
(* (src/src/components/admin/ListeningAudioUploader.tsx, lines 170-427)    *)
(* under a parent that keeps questions and minRequiredQuestions in its     *)
(* state and stores whatever onUpdateQuestions and                         *)
(* onUpdateMinRequiredQuestions hand it.                                   *)
(***************************************************************************)

\* The longest list of questions an editor holds.
MaxQuestions == 2

\* The two editors: Part 1 questions have no is_required field.
Parts == {1, 3}

\* The group's default time limit and what the number inputs deliver
\* (parseInt(value) || 0): the default again, or 0 for an emptied input.
TimeLimits == {0, 30}

\* crypto.randomUUID(): an id no question of the list has.
randomUUID(questions) ==
    CHOOSE id \in 1..(Len(questions) + 1) :
        \A p \in 1..Len(questions) :
            "id" \in DOMAIN questions[p] => questions[p].id # id

\* { ...q, ...updates }.
QuestionSpread(q, updates) ==
    [k \in (DOMAIN q) \cup (DOMAIN updates) |->
        IF k \in DOMAIN updates THEN updates[k] ELSE q[k]]

\* Mutant of Renumbered: question numbers counted from 0.
RenumberedFromZero(q, i) ==
    QuestionSpread(q, [question_number |-> i, order_index |-> i])

\* What the map callbacks of removeQuestion and moveQuestion return for
\* the question at 0-based position i.
Renumbered(q, i) ==
    QuestionSpread(q, [question_number |-> i + 1, order_index |-> i])

\* list.map((q, i) => renumbered q); positions of the model are i + 1.
RenumberAll(list) == [p \in 1..Len(list) |-> Renumbered(list[p], p - 1)]

\* list.filter((_, i) => i !== index).
FilterOut(list, index) ==
    [p \in 1..(Len(list) - (IF index < Len(list) THEN 1 ELSE 0)) |->
        IF p - 1 < index THEN list[p] ELSE list[p + 1]]

\* Array.prototype.splice clamps its start to the length of the array.
ClampIndex(list, start) == IF start > Len(list) THEN Len(list) ELSE start

\* list.splice(start, 1): the array that is left.
SpliceOut(list, start) == FilterOut(list, ClampIndex(list, start))

\* const [moved] = list.splice(start, 1): the removed element, or undefined
\* (an object without keys once it is spread) when start is past the end.
SpliceTaken(list, start) ==
    IF start < Len(list) THEN list[start + 1] ELSE [k \in {} |-> 0]

\* list.splice(start, 0, item).
SpliceIn(list, start, item) ==
    LET at == ClampIndex(list, start)
    IN  [p \in 1..(Len(list) + 1) |->
            IF p - 1 < at THEN list[p]
            ELSE IF p - 1 = at THEN item
            ELSE list[p - 1]]

\* The object addQuestion builds (part_003 lines 33-40, uploader file
\* lines 212-220).
NewQuestion(part, questions, isRequired, timeLimit) ==
    LET newOrderIndex == Len(questions)
        base == [id |-> randomUUID(questions),
                 question_number |-> newOrderIndex + 1,
                 question_text |-> "",
                 time_limit_seconds |-> timeLimit,
                 order_index |-> newOrderIndex]
    IN  IF part = 3 THEN QuestionSpread(base, [is_required |-> isRequired])
        ELSE base

\* The updates the inputs of a question pass to updateQuestion: the text,
\* the time limit, and in Part 3 the required flag.
Updates(part) ==
    {[question_text |-> "q"]}
    \cup {[time_limit_seconds |-> t] : t \in TimeLimits}
    \cup (IF part = 3 THEN {[is_required |-> b] : b \in BOOLEAN} ELSE {})

EditorFrame ==
    UNCHANGED <<queueVars, playerVars, voiceVars, edgeVars, screenVars,
                timer, uploader, mic>>

\* onUpdateQuestions(list): the parent stores the list.
onUpdateQuestions(list) ==
    /\ editor' = [editor EXCEPT !.questions = list]
    /\ EditorFrame

addQuestion(isRequired) ==
    /\ editor.mounted
    /\ Len(editor.questions) < MaxQuestions
    /\ onUpdateQuestions(
         Append(editor.questions,
                NewQuestion(editor.part, editor.questions, isRequired,
                            editor.groupTimeLimitSeconds)))

updateQuestion(index, updates) ==
    /\ editor.mounted
    /\ index < Len(editor.questions)
    /\ onUpdateQuestions(
         [editor.questions EXCEPT
            ![index + 1] = QuestionSpread(@, updates)])

removeQuestion(index) ==
    /\ editor.mounted
    /\ index < Len(editor.questions)
    /\ onUpdateQuestions(RenumberAll(FilterOut(editor.questions, index)))

\* onDrop of the question at toIndex; fromIndex is what the drag wrote
\* under 'questionIndex', a position of this list or, when the drag began
\* in the other editor, a position of that one.
moveQuestion(fromIndex, toIndex) ==
    /\ editor.mounted
    /\ toIndex < Len(editor.questions)
    /\ fromIndex # toIndex
    /\ fromIndex < Len(editor.questions) \/ Len(editor.questions) < MaxQuestions
    /\ onUpdateQuestions(
         RenumberAll(
           SpliceIn(SpliceOut(editor.questions, fromIndex), toIndex,
                    SpliceTaken(editor.questions, fromIndex))))

\* onChange of the minimum required questions input (lines 315-322):
\* parseInt(value) || 0 goes to the parent as typed.
onUpdateMinRequiredQuestions(count) ==
    /\ editor.mounted
    /\ editor.part = 3
    /\ editor' = [editor EXCEPT !.minRequiredQuestions = count]
    /\ EditorFrame

\* Lists in which the question at position i has question_number i + 1
\* and order_index i.
IsNumbered(list) ==
    \A p \in 1..Len(list) :
        /\ list[p].question_number = p
        /\ list[p].order_index = p - 1

\* The lists an editor is opened with.
RECURSIVE StoredQuestions(_, _, _)
StoredQuestions(part, n, timeLimit) ==
    IF n = 0 THEN <<>>
    ELSE LET before == StoredQuestions(part, n - 1, timeLimit)
         IN  Append(before, NewQuestion(part, before, TRUE, timeLimit))

InitEditor ==
    /\ playSessionRef = 0 /\ isSpeaking = FALSE /\ calls = NotCalled
    /\ PlayerIdle /\ VoiceIdle /\ EdgeIdle /\ ScreenIdle
    /\ TimerIdle /\ UploaderIdle /\ MicIdle
    /\ \E part \in Parts, n \in 0..MaxQuestions, t \in TimeLimits \ {0} :
         \E m \in 0..(IF part = 3 THEN n ELSE 0) :
           editor = [mounted |-> TRUE,
                     part |-> part,
                     questions |-> StoredQuestions(part, n, t),
                     groupTimeLimitSeconds |-> t,
                     minRequiredQuestions |-> m]

NextEditor ==
    \/ \E isRequired \in BOOLEAN : addQuestion(isRequired)
    \/ \E index \in 0..(MaxQuestions - 1), updates \in Updates(editor.part) :
         updateQuestion(index, updates)
    \/ \E index \in 0..(MaxQuestions - 1) : removeQuestion(index)
    \/ \E fromIndex, toIndex \in 0..(MaxQuestions - 1) :
         moveQuestion(fromIndex, toIndex)
    \/ \E count \in (-1)..(MaxQuestions + 1) : onUpdateMinRequiredQuestions(count)

SpecEditor == InitEditor /\ [][NextEditor]_vars

\* C25: in both editors, from a list numbered by position, every list that
\* addQuestion, removeQuestion, moveQuestion or updateQuestion (text, time
\* limit, required flag) passes to onUpdateQuestions is numbered by
\* position again: question_number = position + 1, order_index = position.
C25_NumberedByPosition ==
    editor.mounted => IsNumbered(editor.questions)

\* The second question was dragged onto the first (or the other way
\* round), and the list is numbered 1, 2 again.
C25_Witness ==
    /\ editor.mounted
    /\ Len(editor.questions) = 2
    /\ \A p \in 1..2 : "id" \in DOMAIN editor.questions[p]
    /\ editor.questions[1].id = 2
    /\ editor.questions[2].id = 1
    /\ editor.questions[1].question_number = 1
    /\ editor.questions[2].order_index = 1

\* C26: in the Part 3 editor minRequiredQuestions never exceeds the number
\* of questions, whatever questions are added and removed and whatever
\* minimum is entered.
C26_MinimumWithinList ==
    (editor.mounted /\ editor.part = 3)
        => editor.minRequiredQuestions <= Len(editor.questions)

(***************************************************************************)
(* ListeningAudioUploader (src/src/components/admin/                       *)
(* ListeningAudioUploader.tsx, lines 17-169) with the storage bucket       *)
(* 'listening-audios' and a parent that keeps currentAudioUrl: it stores   *)
(* the URL onUploadSuccess hands it and clears it on onRemoveSuccess.      *)
(* A handler runs whenever its own conditions let it; UploadButtonRendered *)
(* tells whether the component shows the button that calls handleUpload.   *)
(***************************************************************************)

\* The testId prop.
testId == "test-1"

\* The names of the files the user picks.
FileNames == {"a.mp3", "b.mp3"}

\* file === null.
NoFile == "null"

\* Storage paths and URLs are sequences of the segments between '/'.
\* getPublicUrl(filePath): the bucket's public address followed by the path.
getPublicUrl(filePath) == <<"storage", "listening-audios">> \o filePath

\* url.split('/').pop(): the last segment.
SplitPop(url) == url[Len(url)]

\* `${testId}/${name}`.
PathUnderTest(name) == <<testId, name>>

\* The path handleUpload removes (lines 53-57): the last segment alone.
ExistingFilePath(currentAudioUrl) == <<SplitPop(currentAudioUrl)>>

\* The path handleRemoveAudio removes (lines 109-114).
RemovedPath(currentAudioUrl) == PathUnderTest(SplitPop(currentAudioUrl))

\* storage.remove([path]): the bucket without the object at that path; a
\* path that names no object removes nothing.
StorageRemove(bucket, path) == bucket \ {path}

\* storage.upload(path, file, {upsert: true}).
StorageUpload(bucket, path) == bucket \cup {path}

\* The component shows the upload button (lines 129, 149-150).
UploadButtonRendered ==
    /\ uploader.mounted
    /\ uploader.currentAudioUrl = Null
    /\ uploader.file # NoFile

UploaderFrame ==
    UNCHANGED <<queueVars, playerVars, voiceVars, edgeVars, screenVars,
                timer, editor, mic>>

\* Lines 28-39: a picked file that is no audio clears the selection.
handleFileChange(name, isAudio) ==
    /\ uploader.mounted
    /\ uploader' =
         IF ~isAudio THEN [uploader EXCEPT !.file = NoFile]
         ELSE [uploader EXCEPT !.file = name, !.progress = 0]
    /\ UploaderFrame

\* Mutant of Finally: the upload state is left as it is.
FinallySkipped(u) == [u EXCEPT !.pc = "idle"]

\* Lines 97-100 and the end of handleUpload.
Finally(u) == [u EXCEPT !.uploading = FALSE, !.progress = 0, !.pc = "idle"]

\* Lines 41-63 up to the first await: the removal of the old file is
\* requested, or, without an old file, the upload (lines 65-78).
handleUpload ==
    /\ uploader.mounted
    /\ uploader.pc = "idle"
    /\ uploader.file # NoFile
    /\ uploader' =
         [uploader EXCEPT
            !.uploading = TRUE,
            !.progress = 0,
            !.onUploadSuccess = <<>>,
            !.previous = uploader.currentAudioUrl,
            !.removeError = FALSE,
            !.uploadError = FALSE,
            !.uploaded = FALSE,
            !.filePath = PathUnderTest(uploader.file),
            !.pc = IF uploader.currentAudioUrl # Null THEN "removing" ELSE "uploading"]
    /\ UploaderFrame

\* Lines 55-62: the storage answers the removal; an error is only logged.
\* Then the upload is requested.
uploadRemoved(ok) ==
    /\ uploader.pc = "removing"
    /\ uploader' =
         [uploader EXCEPT
            !.bucket = IF ok THEN StorageRemove(@, ExistingFilePath(uploader.previous))
                       ELSE @,
            !.removeError = ~ok,
            !.pc = "uploading"]
    /\ UploaderFrame

\* Lines 72-76: onUploadProgress.
onUploadProgress(percent) ==
    /\ uploader.pc = "uploading"
    /\ uploader' = [uploader EXCEPT !.progress = percent]
    /\ UploaderFrame

\* Lines 66-100: the storage answers the upload.  On success the parent
\* gets the public URL and the selection is cleared; an error goes to the
\* catch; the finally block runs in both cases.
uploadAnswered(ok) ==
    /\ uploader.pc = "uploading"
    /\ uploader' =
         IF ok
         THEN LET url == getPublicUrl(uploader.filePath)
              IN  Finally([uploader EXCEPT
                     !.bucket = StorageUpload(@, uploader.filePath),
                     !.uploaded = TRUE,
                     !.onUploadSuccess = Append(@, url),
                     !.currentAudioUrl = url,
                     !.file = NoFile])
         ELSE Finally([uploader EXCEPT !.uploadError = TRUE])
    /\ UploaderFrame

\* Lines 103-114 up to the await: the removal is requested when the user
\* confirms.
handleRemoveAudio(confirmed) ==
    /\ uploader.mounted
    /\ uploader.currentAudioUrl # Null
    /\ uploader.removing = Null
    /\ confirmed
    /\ uploader' = [uploader EXCEPT !.removing = RemovedPath(uploader.currentAudioUrl)]
    /\ UploaderFrame

\* Lines 116-123: the storage answers; onRemoveSuccess clears the parent's
\* URL, an error is only reported.
removeAnswered(ok) ==
    /\ uploader.removing # Null
    /\ uploader' =
         [uploader EXCEPT
            !.bucket = IF ok THEN StorageRemove(@, uploader.removing) ELSE @,
            !.currentAudioUrl = IF ok THEN Null ELSE @,
            !.removing = Null]
    /\ UploaderFrame

InitUploader ==
    /\ playSessionRef = 0 /\ isSpeaking = FALSE /\ calls = NotCalled
    /\ PlayerIdle /\ VoiceIdle /\ EdgeIdle /\ ScreenIdle
    /\ TimerIdle /\ EditorIdle /\ MicIdle
    /\ \E stored \in SUBSET FileNames :
         \E current \in {Null} \cup {getPublicUrl(PathUnderTest(n)) : n \in stored} :
           uploader = [mounted |-> TRUE,
                       file |-> NoFile,
                       uploading |-> FALSE,
                       progress |-> 0,
                       currentAudioUrl |-> current,
                       bucket |-> {PathUnderTest(n) : n \in stored},
                       pc |-> "idle",
                       previous |-> Null,
                       filePath |-> Null,
                       removeError |-> FALSE,
                       uploadError |-> FALSE,
                       uploaded |-> FALSE,
                       onUploadSuccess |-> <<>>,
                       removing |-> Null]

NextUploader ==
    \/ \E name \in FileNames, isAudio \in BOOLEAN : handleFileChange(name, isAudio)
    \/ handleUpload
    \/ \E ok \in BOOLEAN : uploadRemoved(ok)
    \/ \E percent \in {50, 100} : onUploadProgress(percent)
    \/ \E ok \in BOOLEAN : uploadAnswered(ok)
    \/ \E confirmed \in BOOLEAN : handleRemoveAudio(confirmed)
    \/ \E ok \in BOOLEAN : removeAnswered(ok)

SpecUploader == InitUploader /\ [][NextUploader]_vars

\* handleUpload has just finished a run that began with an old audio and
\* uploaded a file with another name.
ReplacedByOtherFile ==
    /\ uploader.mounted
    /\ uploader.pc = "idle"
    /\ uploader.uploaded
    /\ uploader.previous # Null
    /\ ~uploader.removeError
    /\ PathUnderTest(SplitPop(uploader.previous)) # uploader.filePath

C28_UploadOutcome ==
    /\ uploader.pc = "idle" => (~uploader.uploading /\ uploader.progress = 0)
    /\ uploader.removeError =>
         (uploader.pc = "uploading" \/ uploader.uploaded \/ uploader.uploadError)
    /\ (uploader.pc = "idle" /\ uploader.uploaded) =>
         uploader.onUploadSuccess = <<getPublicUrl(uploader.filePath)>>
    /\ (uploader.uploadError \/ uploader.pc # "idle") => uploader.onUploadSuccess = <<>>

\* The removal of the old file failed, the upload succeeded and
\* handleUpload has finished.
C28_Witness ==
    /\ uploader.pc = "idle"
    /\ uploader.removeError
    /\ uploader.uploaded
    /\ Len(uploader.onUploadSuccess) = 1
    /\ uploader.currentAudioUrl = uploader.onUploadSuccess[1]
    /\ ~uploader.uploading
    /\ uploader.progress = 0

(***************************************************************************)
(* MicrophoneTest (src/unnamed/part_002).  Every call of startRecording is *)
(* an attempt with its own getUserMedia promise and, once the microphone   *)
(* is granted, its own MediaRecorder; the handlers run when the buttons    *)
(* that call them are enabled.                                             *)
(***************************************************************************)

\* How often Record is clicked.
MaxAttempts == 3

Attempts == 1..MaxAttempts

\* No recorder / no recording yet: mediaRecorder and recordedAudioUrl are null.
NoAttempt == 0

\* Lines 149-151: the first button calls startRecording or stopRecording
\* and is disabled while loading or playing.
RecordButtonEnabled == mic.mounted /\ ~mic.loading /\ ~mic.isPlaying

\* Lines 160-162.
PlayButtonEnabled ==
    /\ mic.mounted
    /\ mic.recordedAudioUrl # NoAttempt
    /\ ~mic.isRecording
    /\ ~mic.isPlaying

\* Lines 225-227: disabled={testPassed !== true}.
StartButtonEnabled == mic.mounted /\ mic.testPassed = "true"

\* Lines 232-236: the Skip button has no disabled attribute.
SkipButtonEnabled == mic.mounted

MicFrame ==
    UNCHANGED <<queueVars, playerVars, voiceVars, edgeVars, screenVars,
                timer, editor, uploader>>

\* Lines 27-37, up to the await of getUserMedia.
startRecording ==
    /\ RecordButtonEnabled
    /\ ~mic.isRecording
    /\ mic.attempt < MaxAttempts
    /\ mic' = [mic EXCEPT
                 !.loading = TRUE,
                 !.testPassed = "null",
                 !.recordedAudioUrl = NoAttempt,
                 !.attempt = @ + 1,
                 !.recorder[mic.attempt + 1] = "asking"]
    /\ MicFrame

\* Lines 38-58: getUserMedia resolved for attempt a.
microphoneGranted(a) ==
    /\ mic.recorder[a] = "asking"
    /\ mic' = [mic EXCEPT
                 !.recorder[a] = "recording",
                 !.isRecording = TRUE,
                 !.mediaRecorder = a,
                 !.loading = FALSE]
    /\ MicFrame

\* Lines 60-65: getUserMedia rejected for attempt a.
microphoneDenied(a) ==
    /\ mic.recorder[a] = "asking"
    /\ mic' = [mic EXCEPT
                 !.recorder[a] = "denied",
                 !.loading = FALSE,
                 !.testPassed = "false"]
    /\ MicFrame

\* Lines 68-73: the recorder is asked to stop; its stop event comes later.
stopRecording ==
    /\ RecordButtonEnabled
    /\ mic.isRecording
    /\ mic.mediaRecorder # NoAttempt
    /\ mic.recorder[mic.mediaRecorder] = "recording"
    /\ mic' = [mic EXCEPT
                 !.recorder[mic.mediaRecorder] = "stopping",
                 !.isRecording = FALSE]
    /\ MicFrame

\* Mutant of OnStop: the recording is stored but the test is not passed.
OnStopWithoutVerdict(m, a) ==
    [m EXCEPT !.recordedAudioUrl = a, !.loading = FALSE]

\* Lines 45-53: what recorder.onstop of attempt a does to the component.
OnStop(m, a) ==
    [m EXCEPT !.recordedAudioUrl = a, !.testPassed = "true", !.loading = FALSE]

\* The stop event of attempt a's recorder.
recorderStopped(a) ==
    /\ mic.recorder[a] = "stopping"
    /\ mic' = OnStop([mic EXCEPT !.recorder[a] = "inactive"], a)
    /\ MicFrame

\* Lines 75-83.
playRecording ==
    /\ PlayButtonEnabled
    /\ mic' = [mic EXCEPT !.isPlaying = TRUE]
    /\ MicFrame

\* Lines 103-106 and 178: the playback ended or paused.
handleAudioPlayerEnded ==
    /\ mic.mounted
    /\ mic.isPlaying
    /\ mic' = [mic EXCEPT !.isPlaying = FALSE]
    /\ MicFrame

\* Lines 225-231.
onTestComplete ==
    /\ StartButtonEnabled
    /\ mic' = [mic EXCEPT !.clicked = "start"]
    /\ MicFrame

\* Lines 232-239.
onSkipTest ==
    /\ SkipButtonEnabled
    /\ mic' = [mic EXCEPT !.clicked = "skip"]
    /\ MicFrame

InitMic ==
    /\ playSessionRef = 0 /\ isSpeaking = FALSE /\ calls = NotCalled
    /\ PlayerIdle /\ VoiceIdle /\ EdgeIdle /\ ScreenIdle
    /\ TimerIdle /\ EditorIdle /\ UploaderIdle
    /\ mic = [mounted |-> TRUE,
              isRecording |-> FALSE,
              isPlaying |-> FALSE,
              loading |-> FALSE,
              testPassed |-> "null",
              mediaRecorder |-> NoAttempt,
              recordedAudioUrl |-> NoAttempt,
              attempt |-> 0,
              recorder |-> [a \in Attempts |-> "none"],
              clicked |-> "none"]

NextMic ==
    \/ startRecording
    \/ \E a \in Attempts : microphoneGranted(a)
    \/ \E a \in Attempts : microphoneDenied(a)
    \/ stopRecording
    \/ \E a \in Attempts : recorderStopped(a)
    \/ playRecording
    \/ handleAudioPlayerEnded
    \/ onTestComplete
    \/ onSkipTest

SpecMic == InitMic /\ [][NextMic]_vars

\* C29: testPassed is true only when the most recent attempt got the
\* microphone and was then stopped; the recording kept is that attempt's;
\* no event of an earlier attempt sets testPassed or restores a recording;
\* Start Speaking Test is enabled only while testPassed is true and Skip
\* is always enabled.
C29_VerdictOfLatestAttempt ==
    mic.mounted =>
        /\ mic.testPassed = "true" => mic.recorder[mic.attempt] = "inactive"
        /\ mic.recordedAudioUrl # NoAttempt => mic.recordedAudioUrl = mic.attempt
        /\ StartButtonEnabled => mic.testPassed = "true"
        /\ SkipButtonEnabled

====
